---- MODULE Spec2Model ----
(***************************************************************************)
(* RowStream (libsabl/db-driver-js): a buffered, cancelable row cursor     *)
(* with advisory backpressure.  A producer drives it through the           *)
(* controller (setColumns, pushRow/pushArray/pushObject, end, error), a    *)
(* consumer through next() and close(), and an optional Canceler may fire  *)
(* its registered callback once.                                           *)
(*                                                                         *)
(* Every handler runs to completion (single-threaded JavaScript), so each  *)
(* handler is one action.  Handlers call each other (#error -> #cancel ->  *)
(* #end -> close), so each one is written as an operator from stream       *)
(* record to stream record and the actions compose them.  The continuation *)
(* of an `await` / `.then` runs as a later job: the Microtask action.      *)
(***************************************************************************)
EXTENDS Integers, Sequences, FiniteSets, TLC

\* ------------------------------------------------------------------ bounds
MaxCalls      == 6   \* calls made on the stream per run, by anyone
MaxPauseCount == 2   \* largest pauseCount option tried by the constructor
MaxSchema     == 1   \* distinct non-empty column schemas given to setColumns
MaxOptionCount == 5  \* largest pauseCount / resumeCount offered to `new RowStream`
MaxErrors     == 2   \* controller.error calls tried with every kind of value
MaxTxOps      == 3   \* calls made on one SqlTxn
MaxIterRows   == 3   \* rows the producer pushes while a for-await loop runs

\* The script of the test 'returns stream stats' (Scenario A).
ScenarioPauseCount  == 5
ScenarioResumeCount == 3
ScenarioRows        == 6
ScenarioPulls       == 4

\* --------------------------------------------------------------- encodings
NoVal      == -1     \* JavaScript null / undefined for a number or a schema
Negative   == -2     \* a negative count given as an option
NoErr      == 0      \* #err == null
CancelErr  == 1      \* the error the Canceler passes to its callback
ErrA       == 2      \* an Error instance given to controller.error
DefaultErr == 4      \* new Error('Underlying stream encountered an error')
PendingErr == 5      \* new Error('Existing next() call has not yet resolved')
EmptyCols  == 0      \* the schema []

\* Other values handed to controller.error, and the Errors made from them.
Undefined  == 6      \* undefined
StrVal     == 7      \* the string 'this is just terrible'
NumVal     == 8      \* the number 11
MsgObj     == 9      \* the object {message: 'this is just terrible'}
PlainObj   == 10     \* an object without a `message` field
WrapBase   == 100    \* new Error(m) is WrapBase + m, m the text's code

ErrorInputs == {NoErr, ErrA}
ErrorValueInputs == {NoErr, Undefined, ErrA, StrVal, NumVal, MsgObj, PlainObj}
PushOps     == {"pushRow", "pushArray", "pushObject"}

\* The options argument of the constructor: absent, or {pauseCount?, resumeCount?}.
OptionInputs ==
    {[given |-> FALSE, pauseCount |-> NoVal, resumeCount |-> NoVal]} \cup
    [given : {TRUE},
     pauseCount  : {NoVal} \cup (0 .. MaxPauseCount),
     resumeCount : {NoVal} \cup (0 .. MaxPauseCount)]

\* Every options argument `new RowStream` is tried with, valid or not.
CtorOptionInputs ==
    {[given |-> FALSE, pauseCount |-> NoVal, resumeCount |-> NoVal]} \cup
    [given : {TRUE},
     pauseCount  : {NoVal, Negative} \cup (0 .. MaxOptionCount),
     resumeCount : {NoVal, Negative} \cup (0 .. MaxOptionCount)]

\* Scenario A's options {pauseCount: 5, resumeCount: 3}, and the same
\* pauseCount with every other valid choice of resumeCount.
ScenarioOptions ==
    [given |-> TRUE, pauseCount |-> ScenarioPauseCount,
     resumeCount |-> ScenarioResumeCount]

ScenarioOptionInputs ==
    [given : {TRUE}, pauseCount : {ScenarioPauseCount},
     resumeCount : {NoVal} \cup (0 .. ScenarioPauseCount - 1)]

VARIABLES
    options,                             \* the options the constructor was given
    ctor,                                \* the constructor: "no" not run, "ok", "threw"
    canPause, pauseCount, resumeCount,   \* readonly #canPause, #pauseCount, #resumeCount
    clr,                                 \* #clr != null: built with a Canceler
    buf, row, columns, err,              \* #buf, #row, #columns/#fieldNames, #err
    ready, done, closing, closed, canceling, paused,
    waitReady, waitNext, waitClose,      \* the three single-slot waiters
    onCancel,                            \* callback registered on the Canceler
    readyVal,                            \* value #waitReady was resolved with
    readyCalls,                          \* the promises controller.ready() returned
    nextCalls, closeCalls,               \* the promises handed to the consumer
    emitted,                             \* events emitted so far, in order
    consumed,                            \* rows made current by a next() that resolved true
    pushLog,                             \* what became of each push; row k is push k
    endLog,                              \* the controller's end() and error(x) calls
    clrFired,                            \* the Canceler has been canceled
    nCalls,                              \* calls made so far
    itPc, itRows, itExit,                \* a `for await (const row of rows)` loop
    txOpts, txConfig,                    \* SqlTxn: readonly #opts, #config
    txClosed, txStarted,                 \* SqlTxn: #closed, #started
    txStmts,                             \* statements that reached the connection
    txOps,                               \* the promises SqlTxn's methods returned
    txEmitted                            \* `complete` events SqlTxn emitted

config == <<options, ctor, canPause, pauseCount, resumeCount, clr>>
fields == <<buf, row, columns, err, ready, done, closing, closed, canceling,
            paused, waitReady, waitNext, waitClose, onCancel>>
observed == <<readyVal, readyCalls, nextCalls, closeCalls, emitted, consumed>>
calls == <<pushLog, endLog, clrFired, nCalls>>
iter == <<itPc, itRows, itExit>>
txn == <<txOpts, txConfig, txClosed, txStarted, txStmts, txOps, txEmitted>>
aside == <<iter, txn>>
vars == <<config, fields, observed, calls, aside>>

\* ---------------------------------------------------------------- helpers
Count(seq, x) == Cardinality({i \in DOMAIN seq : seq[i] = x})

IsPrefix(s, t) == Len(s) <= Len(t) /\ \A i \in 1 .. Len(s) : s[i] = t[i]

\* The stream as one record, so that handlers can be composed.
Cur ==
    [canPause |-> canPause, pauseCount |-> pauseCount, resumeCount |-> resumeCount,
     buf |-> buf, row |-> row, columns |-> columns, err |-> err,
     ready |-> ready, done |-> done, closing |-> closing, closed |-> closed,
     canceling |-> canceling, paused |-> paused,
     waitReady |-> waitReady, waitNext |-> waitNext, waitClose |-> waitClose,
     onCancel |-> onCancel, readyVal |-> readyVal, readyCalls |-> readyCalls,
     nextCalls |-> nextCalls, closeCalls |-> closeCalls,
     emitted |-> emitted, consumed |-> consumed,
     ret |-> "none"]                     \* how the handler last called returned

Commit(r) ==
    /\ buf' = r.buf /\ row' = r.row /\ columns' = r.columns /\ err' = r.err
    /\ ready' = r.ready /\ done' = r.done /\ closing' = r.closing
    /\ closed' = r.closed /\ canceling' = r.canceling /\ paused' = r.paused
    /\ waitReady' = r.waitReady /\ waitNext' = r.waitNext
    /\ waitClose' = r.waitClose /\ onCancel' = r.onCancel
    /\ readyVal' = r.readyVal /\ readyCalls' = r.readyCalls
    /\ nextCalls' = r.nextCalls
    /\ closeCalls' = r.closeCalls /\ emitted' = r.emitted
    /\ consumed' = r.consumed
    /\ UNCHANGED config

\* ------------------------------------------------------------ pure functions
\* JavaScript values as far as asError looks at them.  A text is coded by
\* the value whose String() it is: StrVal is its own text, NumVal is '11',
\* PlainObj is '[object Object]'; an Error instance is coded by itself.
IsNullish(x)   == x \in {NoErr, Undefined}
IsError(x)     == x \in {CancelErr, ErrA, DefaultErr, PendingErr} \/ x >= WrapBase
IsObject(x)    == x \in {MsgObj, PlainObj}
HasMessage(x)  == x = MsgObj
MessageField(x) == StrVal
String(x)      == x
NewError(m)    == WrapBase + m
Message(e)     == IF e >= WrapBase THEN e - WrapBase ELSE e

\* An asError that stringifies every object, with or without `message`.
asError_noExtract(x) ==
    IF IsNullish(x) THEN NoErr
    ELSE IF IsError(x) THEN x
    ELSE NewError(String(x))

\* asError: null and undefined stay null, an Error instance is returned as it
\* is, an object with `message` gives new Error(String(message)), any other
\* value new Error(String(value)).
asError(x) ==
    IF IsNullish(x) THEN NoErr
    ELSE IF IsError(x) THEN x
    ELSE IF IsObject(x) /\ HasMessage(x) THEN NewError(String(MessageField(x)))
    ELSE NewError(String(x))

\* A #validateOptions that lets resumeCount equal pauseCount.
validateOptions_leq(o) ==
    IF ~o.given
    THEN [ok |-> TRUE, canPause |-> FALSE, pauseCount |-> NoVal, resumeCount |-> NoVal]
    ELSE IF o.pauseCount = NoVal
    THEN IF o.resumeCount # NoVal
         THEN [ok |-> FALSE, canPause |-> FALSE, pauseCount |-> NoVal, resumeCount |-> NoVal]
         ELSE [ok |-> TRUE, canPause |-> FALSE, pauseCount |-> NoVal, resumeCount |-> NoVal]
    ELSE IF o.pauseCount < 2
    THEN [ok |-> FALSE, canPause |-> FALSE, pauseCount |-> NoVal, resumeCount |-> NoVal]
    ELSE IF o.resumeCount = NoVal
    THEN [ok |-> TRUE, canPause |-> TRUE, pauseCount |-> o.pauseCount,
          resumeCount |-> o.pauseCount \div 2]
    ELSE IF o.resumeCount < 0 \/ o.resumeCount > o.pauseCount
    THEN [ok |-> FALSE, canPause |-> FALSE, pauseCount |-> NoVal, resumeCount |-> NoVal]
    ELSE [ok |-> TRUE, canPause |-> TRUE, pauseCount |-> o.pauseCount,
          resumeCount |-> o.resumeCount]

\* A #validateOptions that applies default watermarks to empty options.
validateOptions_emptyOn(o) ==
    IF ~o.given
    THEN [ok |-> TRUE, canPause |-> FALSE, pauseCount |-> NoVal, resumeCount |-> NoVal]
    ELSE IF o.pauseCount = NoVal
    THEN IF o.resumeCount # NoVal
         THEN [ok |-> FALSE, canPause |-> FALSE, pauseCount |-> NoVal, resumeCount |-> NoVal]
         ELSE [ok |-> TRUE, canPause |-> TRUE, pauseCount |-> 2, resumeCount |-> 1]
    ELSE IF o.pauseCount < 2
    THEN [ok |-> FALSE, canPause |-> FALSE, pauseCount |-> NoVal, resumeCount |-> NoVal]
    ELSE IF o.resumeCount = NoVal
    THEN [ok |-> TRUE, canPause |-> TRUE, pauseCount |-> o.pauseCount,
          resumeCount |-> o.pauseCount \div 2]
    ELSE IF o.resumeCount < 0 \/ o.resumeCount >= o.pauseCount
    THEN [ok |-> FALSE, canPause |-> FALSE, pauseCount |-> NoVal, resumeCount |-> NoVal]
    ELSE [ok |-> TRUE, canPause |-> TRUE, pauseCount |-> o.pauseCount,
          resumeCount |-> o.resumeCount]

validateOptions(o) ==
    IF ~o.given
    THEN [ok |-> TRUE, canPause |-> FALSE, pauseCount |-> NoVal, resumeCount |-> NoVal]
    ELSE IF o.pauseCount = NoVal
    THEN IF o.resumeCount # NoVal
         THEN [ok |-> FALSE, canPause |-> FALSE, pauseCount |-> NoVal, resumeCount |-> NoVal]
         ELSE [ok |-> TRUE, canPause |-> FALSE, pauseCount |-> NoVal, resumeCount |-> NoVal]
    ELSE IF o.pauseCount < 2
    THEN [ok |-> FALSE, canPause |-> FALSE, pauseCount |-> NoVal, resumeCount |-> NoVal]
    ELSE IF o.resumeCount = NoVal
    THEN [ok |-> TRUE, canPause |-> TRUE, pauseCount |-> o.pauseCount,
          resumeCount |-> o.pauseCount \div 2]
    ELSE IF o.resumeCount < 0 \/ o.resumeCount >= o.pauseCount
    THEN [ok |-> FALSE, canPause |-> FALSE, pauseCount |-> NoVal, resumeCount |-> NoVal]
    ELSE [ok |-> TRUE, canPause |-> TRUE, pauseCount |-> o.pauseCount,
          resumeCount |-> o.resumeCount]

\* ------------------------------------------------------------------ handlers
emit(r, ev) == [r EXCEPT !.emitted = Append(@, ev)]

\* A #resolveReady that forgets to set #ready.
resolveReady_noFlag(r, e) ==
    [r EXCEPT !.waitReady = FALSE,
              !.readyVal = IF r.waitReady THEN e ELSE @,
              !.readyCalls = {IF r.waitReady /\ c.st = "waiting"
                              THEN [c EXCEPT !.st = "resolved", !.v = e]
                              ELSE c : c \in @}]

resolveReady(r, e) ==
    [r EXCEPT !.ready = TRUE,
              !.waitReady = FALSE,
              !.readyVal = IF r.waitReady THEN e ELSE @,
              !.readyCalls = {IF r.waitReady /\ c.st = "waiting"
                              THEN [c EXCEPT !.st = "resolved", !.v = e]
                              ELSE c : c \in @}]

\* A controller.ready() without the test of #ready.
controllerReady_noReadyCheck(r) ==
    [r EXCEPT !.waitReady = TRUE,
              !.readyCalls =
                  @ \cup {[early |-> TRUE, st |-> "waiting", v |-> NoErr]}]

\* controller.ready(): Promise.resolve(err) once ready, else the one shared
\* #waitReady promise. readyCalls holds the distinct promises handed out:
\* `early` marks the shared promise of the calls made before readiness.
controllerReady(r) ==
    IF r.ready
    THEN [r EXCEPT !.readyCalls =
              @ \cup {[early |-> FALSE, st |-> "resolved", v |-> r.err]}]
    ELSE [r EXCEPT !.waitReady = TRUE,
                   !.readyCalls =
              @ \cup {[early |-> TRUE, st |-> "waiting", v |-> NoErr]}]

setColumns(r, c) ==
    LET r1 == [r EXCEPT !.columns = c]
    IN  IF ~r1.ready THEN resolveReady(r1, NoErr) ELSE r1

pause(r) == emit([r EXCEPT !.paused = TRUE], "pause")

resume(r) == emit([r EXCEPT !.paused = FALSE], "resume")

\* A close() that finalizes at once instead of waiting for the controller.
close_eager(r) ==
    IF r.closed \/ r.closing THEN [r EXCEPT !.ret = "resolved"]
    ELSE
      LET r1  == [r EXCEPT !.closing = TRUE]
          r2  == IF ~r1.ready THEN resolveReady(r1, NoErr) ELSE r1
          r3  == [r2 EXCEPT !.onCancel = FALSE]
          r4  == IF ~r3.done /\ ~r3.canceling
                 THEN emit([r3 EXCEPT !.canceling = TRUE], "cancel")
                 ELSE r3
          wnx == r4.waitNext
          r5  == [r4 EXCEPT !.closed = TRUE, !.closing = FALSE, !.ret = "resolved"]
      IN  IF wnx # 0
          THEN [r5 EXCEPT !.waitNext = 0,
                          !.nextCalls[wnx] = [st |-> "false", v |-> 0]]
          ELSE r5

\* A close() that leaves the cancel callback registered.
close_keepCallback(r) ==
    IF r.closed THEN [r EXCEPT !.ret = "resolved"]
    ELSE IF r.closing
    THEN [r EXCEPT !.ret = IF r.waitClose THEN "waiting" ELSE "resolved"]
    ELSE
      LET r1  == [r EXCEPT !.closing = TRUE]
          r3  == IF ~r1.ready THEN resolveReady(r1, NoErr) ELSE r1
          wnx == r3.waitNext
      IN  IF r3.done
          THEN LET r4 == [r3 EXCEPT !.closed = TRUE, !.closing = FALSE,
                                    !.ret = "resolved"]
               IN  IF wnx # 0
                   THEN [r4 EXCEPT !.waitNext = 0,
                                   !.nextCalls[wnx] = [st |-> "false", v |-> 0]]
                   ELSE r4
          ELSE LET r4 == IF ~r3.canceling
                         THEN emit([r3 EXCEPT !.canceling = TRUE], "cancel")
                         ELSE r3
                   r5 == [r4 EXCEPT !.waitClose = TRUE, !.ret = "waiting"]
               IN  IF wnx # 0
                   THEN [r5 EXCEPT !.waitNext = 0,
                                   !.nextCalls[wnx] = [st |-> "onclose", v |-> 0]]
                   ELSE r5

\* A close() that always waits for the controller, even when it is done.
close_waitsWhenDone(r) ==
    IF r.closed THEN [r EXCEPT !.ret = "resolved"]
    ELSE IF r.closing
    THEN [r EXCEPT !.ret = IF r.waitClose THEN "waiting" ELSE "resolved"]
    ELSE
      LET r1  == [r EXCEPT !.closing = TRUE]
          r2  == IF ~r1.ready THEN resolveReady(r1, NoErr) ELSE r1
          r3  == [r2 EXCEPT !.onCancel = FALSE]
          wnx == r3.waitNext
          r4  == IF ~r3.canceling
                 THEN emit([r3 EXCEPT !.canceling = TRUE], "cancel")
                 ELSE r3
          r5  == [r4 EXCEPT !.waitClose = TRUE, !.ret = "waiting"]
      IN  IF wnx # 0
          THEN [r5 EXCEPT !.waitNext = 0,
                          !.nextCalls[wnx] = [st |-> "onclose", v |-> 0]]
          ELSE r5

\* close(): the stream after the call; ret tells whether the returned promise
\* is already resolved or is #waitClose, still waiting.
close(r) ==
    IF r.closed THEN [r EXCEPT !.ret = "resolved"]
    ELSE IF r.closing
    THEN [r EXCEPT !.ret = IF r.waitClose THEN "waiting" ELSE "resolved"]
    ELSE
      LET r1  == [r EXCEPT !.closing = TRUE]
          r2  == IF ~r1.ready THEN resolveReady(r1, NoErr) ELSE r1
          r3  == [r2 EXCEPT !.onCancel = FALSE]
          wnx == r3.waitNext
      IN  IF r3.done
          THEN LET r4 == [r3 EXCEPT !.closed = TRUE, !.closing = FALSE,
                                    !.ret = "resolved"]
               IN  IF wnx # 0
                   THEN [r4 EXCEPT !.waitNext = 0,
                                   !.nextCalls[wnx] = [st |-> "false", v |-> 0]]
                   ELSE r4
          ELSE LET r4 == IF ~r3.canceling
                         THEN emit([r3 EXCEPT !.canceling = TRUE], "cancel")
                         ELSE r3
                   r5 == [r4 EXCEPT !.waitClose = TRUE, !.ret = "waiting"]
               IN  IF wnx # 0
                   THEN [r5 EXCEPT !.waitNext = 0,
                                   !.nextCalls[wnx] = [st |-> "onclose", v |-> 0]]
                   ELSE r5

\* An #end that always marks the cursor closed.
end_closes(r) ==
    LET r1 == [r EXCEPT !.done = TRUE]
        r2 == IF ~r1.ready THEN setColumns(r1, EmptyCols) ELSE r1
        r3 == emit(r2, "complete")
        r4 == IF r3.waitClose
              THEN [r3 EXCEPT !.closed = TRUE, !.closing = FALSE,
                              !.waitClose = FALSE,
                              !.closeCalls = [i \in DOMAIN @ |->
                                   IF @[i] = "waiting" THEN "resolved" ELSE @[i]]]
              ELSE [r3 EXCEPT !.closed = TRUE, !.closing = FALSE]
    IN  IF r4.waitNext # 0 /\ Len(r4.buf) = 0 THEN close(r4) ELSE r4

\* An #end without the branch for an ending due to error.
end_noErrorBranch(r) ==
    LET r1 == [r EXCEPT !.done = TRUE]
        r2 == IF ~r1.ready THEN setColumns(r1, EmptyCols) ELSE r1
        r3 == emit(r2, "complete")
        r4 == IF r3.waitClose
              THEN [r3 EXCEPT !.closed = TRUE, !.closing = FALSE,
                              !.waitClose = FALSE,
                              !.closeCalls = [i \in DOMAIN @ |->
                                   IF @[i] = "waiting" THEN "resolved" ELSE @[i]]]
              ELSE r3
    IN  IF r4.waitNext # 0 /\ Len(r4.buf) = 0 THEN close(r4) ELSE r4

end(r) ==
    LET r1 == [r EXCEPT !.done = TRUE]
        r2 == IF ~r1.ready THEN setColumns(r1, EmptyCols) ELSE r1
        r3 == emit(r2, "complete")
        r4 == IF r3.waitClose
              THEN [r3 EXCEPT !.closed = TRUE, !.closing = FALSE,
                              !.waitClose = FALSE,
                              !.closeCalls = [i \in DOMAIN @ |->
                                   IF @[i] = "waiting" THEN "resolved" ELSE @[i]]]
              ELSE IF r3.err # NoErr
              THEN [r3 EXCEPT !.closed = TRUE, !.closing = FALSE]
              ELSE r3
    IN  IF r4.waitNext # 0 /\ Len(r4.buf) = 0 THEN close(r4) ELSE r4

\* A #cancel that resolves the pending pull with false instead of rejecting it.
cancel_resolveFalse(r, e) ==
    IF r.canceling THEN r
    ELSE
      LET r1  == [r EXCEPT !.canceling = TRUE, !.err = e, !.onCancel = FALSE]
          r2  == emit(r1, "cancel")
          r3  == IF ~r2.ready THEN resolveReady(r2, e) ELSE r2
          wnx == r3.waitNext
          r4  == IF wnx # 0
                 THEN [r3 EXCEPT !.waitNext = 0,
                                 !.nextCalls[wnx] = [st |-> "false", v |-> 0]]
                 ELSE r3
      IN  end(r4)

\* A #cancel that does not set #canceling.
cancel_noFlag(r, e) ==
    IF r.canceling THEN r
    ELSE
      LET r1  == [r EXCEPT !.err = e, !.onCancel = FALSE]
          r2  == emit(r1, "cancel")
          r3  == IF ~r2.ready THEN resolveReady(r2, e) ELSE r2
          wnx == r3.waitNext
          r4  == IF wnx # 0
                 THEN [r3 EXCEPT !.waitNext = 0,
                                 !.nextCalls[wnx] = [st |-> "rejected", v |-> e]]
                 ELSE r3
      IN  end(r4)

cancel(r, e) ==
    IF r.canceling THEN r
    ELSE
      LET r1  == [r EXCEPT !.canceling = TRUE, !.err = e, !.onCancel = FALSE]
          r2  == emit(r1, "cancel")
          r3  == IF ~r2.ready THEN resolveReady(r2, e) ELSE r2
          wnx == r3.waitNext
          r4  == IF wnx # 0
                 THEN [r3 EXCEPT !.waitNext = 0,
                                 !.nextCalls[wnx] = [st |-> "rejected", v |-> e]]
                 ELSE r3
      IN  end(r4)

\* An #error that announces the cancellation itself, canceling or not.
error_alwaysEmits(r, x) ==
    LET e  == IF asError(x) # NoErr THEN asError(x) ELSE DefaultErr
        r1 == emit([r EXCEPT !.err = e], "cancel")
        r2 == [r1 EXCEPT !.canceling = TRUE, !.onCancel = FALSE]
        r3 == IF ~r2.ready THEN resolveReady(r2, e) ELSE r2
        r4 == IF r3.waitNext # 0
              THEN [r3 EXCEPT !.waitNext = 0,
                              !.nextCalls[r3.waitNext] = [st |-> "rejected", v |-> e]]
              ELSE r3
    IN  end(end(r4))

error(r, x) ==
    LET e  == IF asError(x) # NoErr THEN asError(x) ELSE DefaultErr
        r1 == [r EXCEPT !.err = e]
    IN  end(cancel(r1, e))

\* #pushRow variants with one slip each.
pushRow_unshift(r, x) ==
    IF r.canceling THEN [r EXCEPT !.ret = "dropped"]
    ELSE IF Len(r.buf) = 0 /\ r.waitNext # 0
    THEN [r EXCEPT !.waitNext = 0, !.row = x,
                   !.nextCalls[r.waitNext] = [st |-> "true", v |-> x],
                   !.consumed = Append(@, x), !.ret = "handoff"]
    ELSE LET r1 == [r EXCEPT !.buf = <<x>> \o @, !.ret = "buffered"]
         IN  IF r1.canPause /\ ~r1.paused /\ Len(r1.buf) >= r1.pauseCount
             THEN pause(r1) ELSE r1

pushRow_noCancelCheck(r, x) ==
    IF Len(r.buf) = 0 /\ r.waitNext # 0
    THEN [r EXCEPT !.waitNext = 0, !.row = x,
                   !.nextCalls[r.waitNext] = [st |-> "true", v |-> x],
                   !.consumed = Append(@, x), !.ret = "handoff"]
    ELSE LET r1 == [r EXCEPT !.buf = Append(@, x), !.ret = "buffered"]
         IN  IF r1.canPause /\ ~r1.paused /\ Len(r1.buf) >= r1.pauseCount
             THEN pause(r1) ELSE r1

pushRow_noPausedCheck(r, x) ==
    IF r.canceling THEN [r EXCEPT !.ret = "dropped"]
    ELSE IF Len(r.buf) = 0 /\ r.waitNext # 0
    THEN [r EXCEPT !.waitNext = 0, !.row = x,
                   !.nextCalls[r.waitNext] = [st |-> "true", v |-> x],
                   !.consumed = Append(@, x), !.ret = "handoff"]
    ELSE LET r1 == [r EXCEPT !.buf = Append(@, x), !.ret = "buffered"]
         IN  IF r1.canPause /\ Len(r1.buf) >= r1.pauseCount
             THEN pause(r1) ELSE r1

pushRow_above(r, x) ==
    IF r.canceling THEN [r EXCEPT !.ret = "dropped"]
    ELSE IF Len(r.buf) = 0 /\ r.waitNext # 0
    THEN [r EXCEPT !.waitNext = 0, !.row = x,
                   !.nextCalls[r.waitNext] = [st |-> "true", v |-> x],
                   !.consumed = Append(@, x), !.ret = "handoff"]
    ELSE LET r1 == [r EXCEPT !.buf = Append(@, x), !.ret = "buffered"]
         IN  IF r1.canPause /\ ~r1.paused /\ Len(r1.buf) > r1.pauseCount
             THEN pause(r1) ELSE r1

\* A #pushRow that always buffers, waiter or not.
pushRow_noHandOff(r, x) ==
    IF r.canceling THEN [r EXCEPT !.ret = "dropped"]
    ELSE LET r1 == [r EXCEPT !.buf = Append(@, x), !.ret = "buffered"]
         IN  IF r1.canPause
             THEN IF ~r1.paused
                  THEN IF Len(r1.buf) >= r1.pauseCount THEN pause(r1) ELSE r1
                  ELSE r1
             ELSE r1

\* A #pushRow that hands the row over but keeps the waiter registered.
pushRow_keepWaiter(r, x) ==
    IF r.canceling THEN [r EXCEPT !.ret = "dropped"]
    ELSE IF Len(r.buf) = 0 /\ r.waitNext # 0
    THEN [r EXCEPT !.row = x,
                   !.nextCalls[r.waitNext] = [st |-> "true", v |-> x],
                   !.consumed = Append(@, x),
                   !.ret = "handoff"]
    ELSE LET r1 == [r EXCEPT !.buf = Append(@, x), !.ret = "buffered"]
         IN  IF r1.canPause
             THEN IF ~r1.paused
                  THEN IF Len(r1.buf) >= r1.pauseCount THEN pause(r1) ELSE r1
                  ELSE r1
             ELSE r1

pushRow(r, x) ==
    IF r.canceling THEN [r EXCEPT !.ret = "dropped"]
    ELSE IF Len(r.buf) = 0 /\ r.waitNext # 0
    THEN [r EXCEPT !.waitNext = 0,
                   !.row = x,
                   !.nextCalls[r.waitNext] = [st |-> "true", v |-> x],
                   !.consumed = Append(@, x),
                   !.ret = "handoff"]
    ELSE LET r1 == [r EXCEPT !.buf = Append(@, x), !.ret = "buffered"]
         IN  IF r1.canPause
             THEN IF ~r1.paused
                  THEN IF Len(r1.buf) >= r1.pauseCount THEN pause(r1) ELSE r1
                  ELSE r1
             ELSE r1

\* Row.fromArray / Row.fromObject keep the identity of the pushed row.
pushArray(r, x) == pushRow(r, x)

pushObject(r, x) == pushRow(r, x)

\* An #ensureFields that never throws.
ensureFields_never(r) == TRUE

\* #ensureFields: TRUE when it returns, FALSE when it throws.
ensureFields(r) == r.columns # NoVal

\* controller.pushRow / pushArray / pushObject
controllerPush(r, op, x) ==
    IF ~ensureFields(r) THEN [r EXCEPT !.ret = "threw"]
    ELSE IF op = "pushRow" THEN pushRow(r, x)
    ELSE IF op = "pushArray" THEN pushArray(r, x)
    ELSE pushObject(r, x)

\* A next() without the check for an outstanding pull.
next_noGuard(r) ==
    LET new(q, c) == [q EXCEPT !.nextCalls = Append(@, c)]
        awaitClose(q) == new(q, [st |-> IF q.ret = "waiting" THEN "onclose" ELSE "ondone",
                                 v |-> 0])
    IN  IF r.closed
        THEN new(r, [st |-> "false", v |-> 0])
        ELSE IF r.closing
        THEN awaitClose(close(r))
        ELSE IF Len(r.buf) > 0
        THEN LET r1 == [r EXCEPT !.row = Head(r.buf), !.buf = Tail(@),
                                 !.consumed = Append(@, Head(r.buf))]
                 r2 == IF r1.canPause /\ r1.paused
                       THEN IF Len(r1.buf) <= r1.resumeCount THEN resume(r1) ELSE r1
                       ELSE r1
             IN  new(r2, [st |-> "true", v |-> Head(r.buf)])
        ELSE IF r.done
        THEN awaitClose(close(r))
        ELSE [new(r, [st |-> "pending", v |-> 0])
                 EXCEPT !.waitNext = Len(r.nextCalls) + 1]

\* A next() that resumes only below resumeCount, not on reaching it.
next_below(r) ==
    LET new(q, c) == [q EXCEPT !.nextCalls = Append(@, c)]
        awaitClose(q) == new(q, [st |-> IF q.ret = "waiting" THEN "onclose" ELSE "ondone",
                                 v |-> 0])
    IN  IF r.closed
        THEN new(r, [st |-> "false", v |-> 0])
        ELSE IF r.closing
        THEN awaitClose(close(r))
        ELSE IF r.waitNext # 0
        THEN new(r, [st |-> "rejected", v |-> PendingErr])
        ELSE IF Len(r.buf) > 0
        THEN LET r1 == [r EXCEPT !.row = Head(r.buf), !.buf = Tail(@),
                                 !.consumed = Append(@, Head(r.buf))]
                 r2 == IF r1.canPause /\ r1.paused
                       THEN IF Len(r1.buf) < r1.resumeCount THEN resume(r1) ELSE r1
                       ELSE r1
             IN  new(r2, [st |-> "true", v |-> Head(r.buf)])
        ELSE IF r.done
        THEN awaitClose(close(r))
        ELSE [new(r, [st |-> "pending", v |-> 0])
                 EXCEPT !.waitNext = Len(r.nextCalls) + 1]

\* A next() without the check for a closed cursor.
next_noClosedCheck(r) ==
    LET new(q, c) == [q EXCEPT !.nextCalls = Append(@, c)]
        awaitClose(q) == new(q, [st |-> IF q.ret = "waiting" THEN "onclose" ELSE "ondone",
                                 v |-> 0])
    IN  IF r.closing
        THEN awaitClose(close(r))
        ELSE IF r.waitNext # 0
        THEN new(r, [st |-> "rejected", v |-> PendingErr])
        ELSE IF Len(r.buf) > 0
        THEN LET r1 == [r EXCEPT !.row = Head(r.buf), !.buf = Tail(@),
                                 !.consumed = Append(@, Head(r.buf))]
                 r2 == IF r1.canPause /\ r1.paused
                       THEN IF Len(r1.buf) <= r1.resumeCount THEN resume(r1) ELSE r1
                       ELSE r1
             IN  new(r2, [st |-> "true", v |-> Head(r.buf)])
        ELSE IF r.done
        THEN awaitClose(close(r))
        ELSE [new(r, [st |-> "pending", v |-> 0])
                 EXCEPT !.waitNext = Len(r.nextCalls) + 1]

\* A next() that resumes a paused stream whatever the buffer holds.
next_resumeAlways(r) ==
    LET new(q, c) == [q EXCEPT !.nextCalls = Append(@, c)]
        awaitClose(q) == new(q, [st |-> IF q.ret = "waiting" THEN "onclose" ELSE "ondone",
                                 v |-> 0])
    IN  IF r.closed
        THEN new(r, [st |-> "false", v |-> 0])
        ELSE IF r.closing
        THEN awaitClose(close(r))
        ELSE IF r.waitNext # 0
        THEN new(r, [st |-> "rejected", v |-> PendingErr])
        ELSE IF Len(r.buf) > 0
        THEN LET r1 == [r EXCEPT !.row = Head(r.buf), !.buf = Tail(@),
                                 !.consumed = Append(@, Head(r.buf))]
                 r2 == IF r1.canPause /\ r1.paused THEN resume(r1) ELSE r1
             IN  new(r2, [st |-> "true", v |-> Head(r.buf)])
        ELSE IF r.done
        THEN awaitClose(close(r))
        ELSE [new(r, [st |-> "pending", v |-> 0])
                 EXCEPT !.waitNext = Len(r.nextCalls) + 1]

\* next(): the stream after the synchronous part, with the new promise appended.
next(r) ==
    LET new(q, c) == [q EXCEPT !.nextCalls = Append(@, c)]
        awaitClose(q) == new(q, [st |-> IF q.ret = "waiting" THEN "onclose" ELSE "ondone",
                                 v |-> 0])
    IN  IF r.closed
        THEN new(r, [st |-> "false", v |-> 0])
        ELSE IF r.closing
        THEN awaitClose(close(r))
        ELSE IF r.waitNext # 0
        THEN new(r, [st |-> "rejected", v |-> PendingErr])
        ELSE IF Len(r.buf) > 0
        THEN LET r1 == [r EXCEPT !.row = Head(r.buf), !.buf = Tail(@),
                                 !.consumed = Append(@, Head(r.buf))]
                 r2 == IF r1.canPause /\ r1.paused
                       THEN IF Len(r1.buf) <= r1.resumeCount THEN resume(r1) ELSE r1
                       ELSE r1
             IN  new(r2, [st |-> "true", v |-> Head(r.buf)])
        ELSE IF r.done
        THEN awaitClose(close(r))
        ELSE [new(r, [st |-> "pending", v |-> 0])
                 EXCEPT !.waitNext = Len(r.nextCalls) + 1]

\* The constructor: #validateOptions first, then the registration of #cancel
\* on the Canceler; a throw of #validateOptions leaves nothing registered.
constructor(o, c) ==
    LET v == validateOptions(o)
    IN  [ctor |-> IF v.ok THEN "ok" ELSE "threw",
         canPause |-> v.canPause, pauseCount |-> v.pauseCount,
         resumeCount |-> v.resumeCount,
         onCancel |-> v.ok /\ c]

\* ------------------------------------------------------------------- Init
\* SqlTxn's field initializers, for a transaction without options.
TxnFresh ==
    /\ txClosed = FALSE /\ txStarted = FALSE
    /\ txStmts = <<>> /\ txOps = <<>> /\ txEmitted = 0

TxnIdle ==
    /\ txOpts = [level |-> "absent", readOnly |-> "absent"]
    /\ txConfig = [supportsReadOnly |-> FALSE]
    /\ TxnFresh

\* The field initializers, before the constructor body has run.
StreamFresh ==
    /\ buf = <<>> /\ row = 0 /\ columns = NoVal /\ err = NoErr
    /\ ready = FALSE /\ done = FALSE /\ closing = FALSE /\ closed = FALSE
    /\ canceling = FALSE /\ paused = FALSE
    /\ waitReady = FALSE /\ waitNext = 0 /\ waitClose = FALSE
    /\ readyVal = NoVal /\ readyCalls = {}
    /\ nextCalls = <<>> /\ closeCalls = <<>>
    /\ emitted = <<>> /\ consumed = <<>> /\ pushLog = <<>>
    /\ endLog = <<>>
    /\ clrFired = FALSE
    /\ nCalls = 0
    /\ itPc = "idle" /\ itRows = <<>> /\ itExit = "none"

Fresh == StreamFresh /\ TxnIdle

\* A stream as the constructor leaves it when given options o and, if c, a
\* Canceler.
Constructed(o, c) ==
    /\ options = o
    /\ clr = c
    /\ ctor = constructor(o, clr).ctor
    /\ canPause = constructor(o, clr).canPause
    /\ pauseCount = constructor(o, clr).pauseCount
    /\ resumeCount = constructor(o, clr).resumeCount
    /\ onCancel = constructor(o, clr).onCancel
    /\ Fresh

\* A constructed stream.  It is given a Canceler, which may or may not fire:
\* a stream built without one behaves as one whose Canceler never fires.
Init ==
    \E o \in OptionInputs :
        constructor(o, TRUE).ctor = "ok" /\ Constructed(o, TRUE)

\* ---------------------------------------------------------------- actions
\* Every call on the stream counts against MaxCalls.
Call == nCalls < MaxCalls /\ nCalls' = nCalls + 1

\* controller.setColumns(columns)
SetColumns ==
    /\ Call
    /\ \E c \in 1 .. MaxSchema : Commit(setColumns(Cur, c))
    /\ UNCHANGED <<pushLog, endLog, clrFired, aside>>

\* controller.pushRow / pushArray / pushObject: #ensureFields, then #pushRow
Push ==
    /\ Call
    /\ \E op \in PushOps :
         LET r == controllerPush(Cur, op, Len(pushLog) + 1)
         IN  /\ Commit(r)
             /\ pushLog' = Append(pushLog, r.ret)
    /\ UNCHANGED <<endLog, clrFired, aside>>

\* controller.end()
End ==
    /\ Call
    /\ endLog' = Append(endLog, [op |-> "end", x |-> NoErr])
    /\ Commit(end(Cur))
    /\ UNCHANGED <<pushLog, clrFired, aside>>

\* controller.error(err)
Error ==
    /\ Call
    /\ \E x \in ErrorInputs :
         /\ endLog' = Append(endLog, [op |-> "error", x |-> x])
         /\ Commit(error(Cur, x))
    /\ UNCHANGED <<pushLog, clrFired, aside>>

\* controller.ready()
Ready ==
    /\ Call
    /\ Commit(controllerReady(Cur))
    /\ UNCHANGED <<pushLog, endLog, clrFired, aside>>

\* The Canceler is canceled: it invokes the callback that is still registered.
Cancel ==
    /\ Call
    /\ clr /\ ~clrFired
    /\ clrFired' = TRUE
    /\ IF onCancel THEN Commit(cancel(Cur, CancelErr)) ELSE Commit(Cur)
    /\ UNCHANGED <<pushLog, endLog, aside>>

\* rows.next()
Next_ ==
    /\ Call
    /\ Commit(next(Cur))
    /\ UNCHANGED <<pushLog, endLog, clrFired, aside>>

\* rows.close()
Close ==
    /\ Call
    /\ LET r == close(Cur)
       IN  Commit([r EXCEPT !.closeCalls = Append(@, r.ret)])
    /\ UNCHANGED <<pushLog, endLog, clrFired, aside>>

\* The job queue runs the continuation of the oldest `await this.close()` /
\* `waitClose.then(...)` whose awaited promise has resolved.
Runnable(i) ==
    \/ nextCalls[i].st = "ondone"
    \/ nextCalls[i].st = "onclose" /\ ~waitClose

Microtask ==
    /\ \E i \in DOMAIN nextCalls :
         /\ Runnable(i)
         /\ \A j \in 1 .. i - 1 : ~Runnable(j)
         /\ nextCalls' = [nextCalls EXCEPT ![i] = [st |-> "false", v |-> 0]]
    /\ UNCHANGED <<config, fields, readyVal, readyCalls, closeCalls, emitted,
                   consumed, calls, aside>>

Next ==
    \/ SetColumns
    \/ Push
    \/ End
    \/ Error
    \/ Ready
    \/ Cancel
    \/ Next_
    \/ Close
    \/ Microtask

Spec == Init /\ [][Next]_vars

\* ------------------------------------------------------- the constructor
\* `new RowStream(clr?, options?)` as a step of its own, from the field
\* initializers to the constructed stream or to the throw.
InitCtor ==
    /\ options \in CtorOptionInputs
    /\ clr \in BOOLEAN
    /\ ctor = "no"
    /\ canPause = FALSE /\ pauseCount = NoVal /\ resumeCount = NoVal
    /\ onCancel = FALSE
    /\ Fresh

Construct ==
    /\ ctor = "no"
    /\ ctor' = constructor(options, clr).ctor
    /\ canPause' = constructor(options, clr).canPause
    /\ pauseCount' = constructor(options, clr).pauseCount
    /\ resumeCount' = constructor(options, clr).resumeCount
    /\ onCancel' = constructor(options, clr).onCancel
    /\ UNCHANGED <<options, clr, buf, row, columns, err, ready, done, closing,
                   closed, canceling, paused, waitReady, waitNext, waitClose,
                   observed, calls, aside>>

NextCtor == Construct

SpecCtor == InitCtor /\ [][NextCtor]_vars

\* ------------------------------------------------------------ Scenario A
\* The test 'returns stream stats': a stream with watermarks is given its
\* columns, filled with up to ScenarioRows rows and then pulled from up to
\* ScenarioPulls times.
InitA ==
    \E o \in ScenarioOptionInputs, c \in BOOLEAN : Constructed(o, c)

\* setCols(ctrl)
ScenarioSetColumns ==
    /\ columns = NoVal
    /\ \E c \in 1 .. MaxSchema : Commit(setColumns(Cur, c))
    /\ UNCHANGED <<calls, aside>>

\* putData(ctrl, n): ctrl.pushArray(...), before the first pull
ScenarioPush ==
    /\ columns # NoVal /\ nextCalls = <<>>
    /\ Len(pushLog) < ScenarioRows
    /\ LET r == controllerPush(Cur, "pushArray", Len(pushLog) + 1)
       IN  /\ Commit(r)
           /\ pushLog' = Append(pushLog, r.ret)
    /\ UNCHANGED <<endLog, clrFired, nCalls, aside>>

\* await rows.next()
ScenarioPull ==
    /\ columns # NoVal
    /\ Len(nextCalls) < ScenarioPulls
    /\ Commit(next(Cur))
    /\ UNCHANGED <<calls, aside>>

NextA ==
    \/ ScenarioSetColumns
    \/ ScenarioPush
    \/ ScenarioPull

SpecA == InitA /\ [][NextA]_vars

\* ------------------------------------------------------------- type invariant
TypeOK ==
    /\ canPause \in BOOLEAN
    /\ nCalls \in 0 .. MaxCalls
    /\ \A i \in DOMAIN buf : buf[i] \in DOMAIN pushLog
    /\ waitNext \in 0 .. Len(nextCalls)
    /\ \A i \in DOMAIN nextCalls :
         nextCalls[i].st \in {"pending", "onclose", "ondone", "true", "false", "rejected"}
    /\ \A i \in DOMAIN closeCalls : closeCalls[i] \in {"waiting", "resolved"}

\* ------------------------------------------------- controller.error(any)
\* controller.error with every kind of value asError tells apart, on a
\* stream the consumer may have pulled from or closed, or that was canceled
\* or ended before.
ErrorAny ==
    /\ Call
    /\ Len(endLog) < MaxErrors
    /\ \E x \in ErrorValueInputs :
         /\ endLog' = Append(endLog, [op |-> "error", x |-> x])
         /\ Commit(error(Cur, x))
    /\ UNCHANGED <<pushLog, clrFired, aside>>

NextErr ==
    \/ ErrorAny
    \/ End
    \/ Cancel
    \/ Next_
    \/ Close
    \/ Microtask

SpecErr == Init /\ [][NextErr]_vars

\* ------------------------------------------------------- async iterator
\* `for await (const row of rows) { ... }`: the generator of
\* [Symbol.asyncIterator] and the loop that drives it.  The loop is the only
\* consumer, so the promise it awaits is the last one made.  Meanwhile the
\* producer sets the columns, pushes up to MaxIterRows rows and ends.
InitIter ==
    \E o \in OptionInputs, c \in BOOLEAN :
        constructor(o, c).ctor = "ok" /\ Constructed(o, c)

\* while (await this.next()): the call of next()
IterNext ==
    /\ itPc \in {"idle", "loop"}
    /\ Commit(next(Cur))
    /\ itPc' = "awaitNext"
    /\ UNCHANGED <<calls, itRows, itExit, txn>>

\* the awaited next() has settled: `yield this.row`, leave the loop, or throw
IterResume ==
    /\ itPc = "awaitNext"
    /\ LET c == nextCalls[Len(nextCalls)]
       IN  \/ /\ c.st = "true"
              /\ itRows' = Append(itRows, row)
              /\ itPc' = "body"
              /\ UNCHANGED itExit
           \/ /\ c.st = "false"
              /\ itPc' = "finally" /\ itExit' = "exhausted"
              /\ UNCHANGED itRows
           \/ /\ c.st = "rejected"
              /\ itPc' = "finally" /\ itExit' = "rejected"
              /\ UNCHANGED itRows
    /\ UNCHANGED <<config, fields, observed, calls, txn>>

\* the consumer's loop body: it completes, breaks or throws; a break or a
\* throw makes the loop call return() on the generator, which runs `finally`
IterBody ==
    /\ itPc = "body"
    /\ \/ itPc' = "loop" /\ UNCHANGED itExit
       \/ \E e \in {"break", "throw"} : itPc' = "finally" /\ itExit' = e
    /\ UNCHANGED <<config, fields, observed, calls, itRows, txn>>

\* finally { await this.close() }: the call of close()
IterFinally ==
    /\ itPc = "finally"
    /\ LET r == close(Cur)
       IN  Commit([r EXCEPT !.closeCalls = Append(@, r.ret)])
    /\ itPc' = "awaitClose"
    /\ UNCHANGED <<calls, itRows, itExit, txn>>

\* the awaited close() has resolved: the loop statement completes
IterDone ==
    /\ itPc = "awaitClose"
    /\ closeCalls[Len(closeCalls)] = "resolved"
    /\ itPc' = "done"
    /\ UNCHANGED <<config, fields, observed, calls, itRows, itExit, txn>>

\* the producer of the loop's rows: setCols, putData, ctrl.end, ctrl.error
ProducerSetColumns ==
    /\ columns = NoVal
    /\ \E c \in 1 .. MaxSchema : Commit(setColumns(Cur, c))
    /\ UNCHANGED <<calls, aside>>

ProducerPush ==
    /\ columns # NoVal /\ ~done
    /\ Len(pushLog) < MaxIterRows
    /\ LET r == controllerPush(Cur, "pushArray", Len(pushLog) + 1)
       IN  /\ Commit(r)
           /\ pushLog' = Append(pushLog, r.ret)
    /\ UNCHANGED <<endLog, clrFired, nCalls, aside>>

ProducerEnd ==
    /\ ~done
    /\ endLog' = Append(endLog, [op |-> "end", x |-> NoErr])
    /\ Commit(end(Cur))
    /\ UNCHANGED <<pushLog, clrFired, nCalls, aside>>

ProducerError ==
    /\ ~done
    /\ endLog' = Append(endLog, [op |-> "error", x |-> ErrA])
    /\ Commit(error(Cur, ErrA))
    /\ UNCHANGED <<pushLog, clrFired, nCalls, aside>>

NextIter ==
    \/ IterNext
    \/ IterResume
    \/ IterBody
    \/ IterFinally
    \/ IterDone
    \/ ProducerSetColumns
    \/ ProducerPush
    \/ ProducerEnd
    \/ ProducerError
    \/ Microtask

SpecIter == InitIter /\ [][NextIter]_vars

\* The job queue and the loop always run what is ready to run, and the
\* producer eventually signals the end.
FairSpecIter ==
    /\ SpecIter
    /\ WF_vars(Microtask)
    /\ WF_vars(IterNext) /\ WF_vars(IterResume) /\ WF_vars(IterBody)
    /\ WF_vars(IterFinally) /\ WF_vars(IterDone)
    /\ WF_vars(ProducerEnd)

\* ------------------------------------------- a producer that stops at once
\* The producer has registered ctrl.on('cancel', () => ctrl.end()): the
\* listener runs inside emit('cancel'), before the emitting method goes on.
stopOnCancel(r) == end(r)

\* close() on such a stream
closeStopping(r) ==
    IF r.closed THEN [r EXCEPT !.ret = "resolved"]
    ELSE IF r.closing
    THEN [r EXCEPT !.ret = IF r.waitClose THEN "waiting" ELSE "resolved"]
    ELSE
      LET r1  == [r EXCEPT !.closing = TRUE]
          r2  == IF ~r1.ready THEN resolveReady(r1, NoErr) ELSE r1
          r3  == [r2 EXCEPT !.onCancel = FALSE]
          wnx == r3.waitNext
      IN  IF r3.done
          THEN LET r4 == [r3 EXCEPT !.closed = TRUE, !.closing = FALSE,
                                    !.ret = "resolved"]
               IN  IF wnx # 0
                   THEN [r4 EXCEPT !.waitNext = 0,
                                   !.nextCalls[wnx] = [st |-> "false", v |-> 0]]
                   ELSE r4
          ELSE LET r4 == IF ~r3.canceling
                         THEN stopOnCancel(emit([r3 EXCEPT !.canceling = TRUE],
                                                "cancel"))
                         ELSE r3
                   r5 == [r4 EXCEPT !.waitClose = TRUE, !.ret = "waiting"]
               IN  IF wnx # 0
                   THEN [r5 EXCEPT !.waitNext = 0,
                                   !.nextCalls[wnx] = [st |-> "onclose", v |-> 0]]
                   ELSE r5

\* #cancel on such a stream
cancelStopping(r, e) ==
    IF r.canceling THEN r
    ELSE
      LET r1  == [r EXCEPT !.canceling = TRUE, !.err = e, !.onCancel = FALSE]
          r2  == stopOnCancel(emit(r1, "cancel"))
          r3  == IF ~r2.ready THEN resolveReady(r2, e) ELSE r2
          wnx == r3.waitNext
          r4  == IF wnx # 0
                 THEN [r3 EXCEPT !.waitNext = 0,
                                 !.nextCalls[wnx] = [st |-> "rejected", v |-> e]]
                 ELSE r3
      IN  end(r4)

\* #error on such a stream
errorStopping(r, x) ==
    LET e  == IF asError(x) # NoErr THEN asError(x) ELSE DefaultErr
        r1 == [r EXCEPT !.err = e]
    IN  end(cancelStopping(r1, e))

\* the call log after a method that left the stream as r: the listener's
\* end() is logged if the method emitted `cancel`
StopLog(log, r) ==
    IF Len(SelectSeq(r.emitted, LAMBDA ev : ev = "cancel")) >
       Len(SelectSeq(emitted, LAMBDA ev : ev = "cancel"))
    THEN Append(log, [op |-> "end", x |-> NoErr])
    ELSE log

\* rows.close()
CloseStopping ==
    /\ Call
    /\ LET r == closeStopping(Cur)
       IN  /\ Commit([r EXCEPT !.closeCalls = Append(@, r.ret)])
           /\ endLog' = StopLog(endLog, r)
    /\ UNCHANGED <<pushLog, clrFired, aside>>

\* the Canceler fires
CancelStopping ==
    /\ Call
    /\ clr /\ ~clrFired
    /\ clrFired' = TRUE
    /\ LET r == IF onCancel THEN cancelStopping(Cur, CancelErr) ELSE Cur
       IN  Commit(r) /\ endLog' = StopLog(endLog, r)
    /\ UNCHANGED <<pushLog, aside>>

\* controller.error(err)
ErrorStopping ==
    /\ Call
    /\ \E x \in ErrorInputs :
         LET r == errorStopping(Cur, x)
         IN  /\ Commit(r)
             /\ endLog' = StopLog(Append(endLog, [op |-> "error", x |-> x]), r)
    /\ UNCHANGED <<pushLog, clrFired, aside>>

NextStop ==
    \/ SetColumns
    \/ Push
    \/ End
    \/ ErrorStopping
    \/ Ready
    \/ CancelStopping
    \/ Next_
    \/ CloseStopping
    \/ Microtask

SpecStop == Init /\ [][NextStop]_vars

\* The job queue runs every job it holds; the producer and the consumer owe
\* no further call.
FairSpecStop == SpecStop /\ WF_vars(Microtask)

\* The for-await loop over the stream of such a producer: `finally` calls
\* close() with the listener attached, and so does the producer's error().
IterFinallyStopping ==
    /\ itPc = "finally"
    /\ LET r == closeStopping(Cur)
       IN  /\ Commit([r EXCEPT !.closeCalls = Append(@, r.ret)])
           /\ endLog' = StopLog(endLog, r)
    /\ itPc' = "awaitClose"
    /\ UNCHANGED <<pushLog, clrFired, nCalls, itRows, itExit, txn>>

ProducerErrorStopping ==
    /\ ~done
    /\ LET r == errorStopping(Cur, ErrA)
       IN  /\ Commit(r)
           /\ endLog' = StopLog(Append(endLog, [op |-> "error", x |-> ErrA]), r)
    /\ UNCHANGED <<pushLog, clrFired, nCalls, aside>>

NextIterStop ==
    \/ IterNext
    \/ IterResume
    \/ IterBody
    \/ IterFinallyStopping
    \/ IterDone
    \/ ProducerSetColumns
    \/ ProducerPush
    \/ ProducerEnd
    \/ ProducerErrorStopping
    \/ Microtask

SpecIterStop == InitIter /\ [][NextIterStop]_vars

\* The job queue and the loop always run what is ready to run, and a
\* producer that has not yet signaled the end does so eventually.
FairSpecIterStop ==
    /\ SpecIterStop
    /\ WF_vars(Microtask)
    /\ WF_vars(IterNext) /\ WF_vars(IterResume) /\ WF_vars(IterBody)
    /\ WF_vars(IterFinallyStopping) /\ WF_vars(IterDone)
    /\ WF_vars(ProducerEnd)

\* ----------------------------------------------------------------- SqlTxn
\* SqlTxn (sql-txn.ts) on a connection whose statements settle later, each
\* with success or failure.  txOpts.level is the isolation level asked for:
\* absent, the default level, a level the driver supports, one it does not,
\* or a value that is no IsolationLevel although the driver claims support.
TxLevels    == {"absent", "default", "supported", "unsupported", "unknown"}
TxReadOnly  == {"absent", "true", "false"}
TxForwarded == {"exec", "queryRow", "query"}

TxCur ==
    [closed |-> txClosed, started |-> txStarted, stmts |-> txStmts,
     ops |-> txOps, emitted |-> txEmitted]

TxCommitState(t) ==
    /\ txClosed' = t.closed /\ txStarted' = t.started
    /\ txStmts' = t.stmts /\ txOps' = t.ops /\ txEmitted' = t.emitted
    /\ UNCHANGED <<txOpts, txConfig, config, fields, observed, calls, iter>>

\* #checkStatus: what it throws, if anything
checkStatus(t) ==
    IF t.closed THEN "Transaction is already closed"
    ELSE IF ~t.started THEN "Transaction is not yet started"
    ELSE "ok"

supportsIsolationLevel(level) == level \in {"default", "supported", "unknown"}

supportsReadOnly(cfg) == cfg.supportsReadOnly

\* isolationLevelKeyword returns a keyword for the named levels other than
\* the default, whether or not the driver supports them; for the default
\* level, an absent level and a value that is no IsolationLevel it throws
hasKeyword(level) == level \in {"supported", "unsupported"}

\* a new promise of method op, pending
txCall(t, op) ==
    [t EXCEPT !.ops = Append(@, [op |-> op, st |-> "pending", msg |-> "", stmt |-> 0])]

\* promise k is rejected with msg / resolved
txReject(t, k, msg) == [t EXCEPT !.ops[k].st = "rejected", !.ops[k].msg = msg]

txResolve(t, k) == [t EXCEPT !.ops[k].st = "resolved"]

\* this.#con.exec / queryRow / query: the statement reaches the connection
\* and promise k awaits it
txIssue(t, k, sql) ==
    [t EXCEPT !.stmts = Append(@, [sql |-> sql, res |-> "pending"]),
              !.ops[k].stmt = Len(t.stmts) + 1]

\* start(): the catch block
startFailed(t, k, msg) == txReject([t EXCEPT !.closed = TRUE], k, msg)

\* start(): from the choice of the start command on
startCommand(t, k, opts, cfg) ==
    IF opts.readOnly # "absent" /\ ~supportsReadOnly(cfg) /\ opts.readOnly = "true"
    THEN startFailed(t, k, "Read only transactions not supported")
    ELSE txIssue(t, k, "START")

\* start(): up to its first await
start(t, opts, cfg) ==
    LET t1 == txCall(t, "start")
        k  == Len(t1.ops)
    IN  IF opts.level \notin {"absent", "default"}
        THEN IF ~supportsIsolationLevel(opts.level)
             THEN startFailed(t1, k, "Unsupported isolation level")
             ELSE IF ~hasKeyword(opts.level)
             THEN startFailed(t1, k, "Unsupported isolation level")
             ELSE txIssue(t1, k, "SET")
        ELSE startCommand(t1, k, opts, cfg)

\* exec / queryRow / query: #checkStatus, then the call on the connection
forward(t, op) ==
    LET t1 == txCall(t, op)
        k  == Len(t1.ops)
    IN  IF checkStatus(t) # "ok" THEN txReject(t1, k, checkStatus(t))
        ELSE txIssue(t1, k, op)

finish_lateClose(t, op) ==
    LET t1 == txCall(t, op)
        k  == Len(t1.ops)
    IN  IF checkStatus(t) # "ok" THEN txReject(t1, k, checkStatus(t))
        ELSE txIssue(t1, k, IF op = "commit" THEN "COMMIT" ELSE "ROLLBACK")

\* commit() / rollback(): up to the await
finish(t, op) ==
    LET t1 == txCall(t, op)
        k  == Len(t1.ops)
    IN  IF checkStatus(t) # "ok" THEN txReject(t1, k, checkStatus(t))
        ELSE txIssue([t1 EXCEPT !.closed = TRUE], k,
                     IF op = "commit" THEN "COMMIT" ELSE "ROLLBACK")

\* statement i settles and the method awaiting it runs on
settle(t, i, ok, opts, cfg) ==
    LET t1 == [t EXCEPT !.stmts[i].res = IF ok THEN "ok" ELSE "fail"]
        k  == CHOOSE j \in DOMAIN t.ops : t.ops[j].stmt = i
        op == t.ops[k].op
    IN  IF op = "start"
        THEN IF ~ok THEN startFailed(t1, k, "connection")
             ELSE IF t.stmts[i].sql = "SET" THEN startCommand(t1, k, opts, cfg)
             ELSE txResolve([t1 EXCEPT !.started = TRUE], k)
        ELSE IF op \in {"commit", "rollback"}
        THEN LET t2 == [t1 EXCEPT !.emitted = @ + 1]
             IN  IF ok THEN txResolve(t2, k) ELSE txReject(t2, k, "connection")
        ELSE IF ok THEN txResolve(t1, k) ELSE txReject(t1, k, "connection")

\* new SqlTxn(ctx, con, opts, config)
NoOptions == [given |-> FALSE, pauseCount |-> NoVal, resumeCount |-> NoVal]

InitTxn ==
    /\ txOpts \in [level : TxLevels, readOnly : TxReadOnly]
    /\ txConfig \in [supportsReadOnly : BOOLEAN]
    /\ TxnFresh
    /\ options = NoOptions /\ clr = FALSE
    /\ ctor = constructor(NoOptions, FALSE).ctor
    /\ canPause = constructor(NoOptions, FALSE).canPause
    /\ pauseCount = constructor(NoOptions, FALSE).pauseCount
    /\ resumeCount = constructor(NoOptions, FALSE).resumeCount
    /\ onCancel = constructor(NoOptions, FALSE).onCancel
    /\ StreamFresh

TxCallable == Len(txOps) < MaxTxOps

TxStart    == TxCallable /\ TxCommitState(start(TxCur, txOpts, txConfig))

TxExec     == TxCallable /\ TxCommitState(forward(TxCur, "exec"))

TxQueryRow == TxCallable /\ TxCommitState(forward(TxCur, "queryRow"))

TxQuery    == TxCallable /\ TxCommitState(forward(TxCur, "query"))

TxCommit   == TxCallable /\ TxCommitState(finish(TxCur, "commit"))

TxRollback == TxCallable /\ TxCommitState(finish(TxCur, "rollback"))

\* the connection settles one of its pending statements
TxSettle ==
    \E i \in DOMAIN txStmts, ok \in BOOLEAN :
        /\ txStmts[i].res = "pending"
        /\ TxCommitState(settle(TxCur, i, ok, txOpts, txConfig))

NextTxn ==
    \/ TxStart
    \/ TxExec
    \/ TxQueryRow
    \/ TxQuery
    \/ TxCommit
    \/ TxRollback
    \/ TxSettle

SpecTxn == InitTxn /\ [][NextTxn]_vars

\* ================================================================== claims
\* Which call a step is, read from the call logs.
PushStep       == Len(pushLog') = Len(pushLog) + 1
NextStep       == Len(nextCalls') = Len(nextCalls) + 1
CloseStep      == Len(closeCalls') = Len(closeCalls) + 1
EndOrErrorStep == Len(endLog') = Len(endLog) + 1
ErrorStep      == EndOrErrorStep /\ endLog'[Len(endLog')].op = "error"
CancelStep     == clrFired' /\ ~clrFired /\ onCancel

Range(seq) == {seq[i] : i \in DOMAIN seq}

\* The rows pushed while the stream was not canceling, in push order.
Accepted ==
    SelectSeq([k \in 1 .. Len(pushLog) |-> k],
              LAMBDA k : pushLog[k] \in {"handoff", "buffered"})

\* The rows of the next() calls that resolved true, in call order.
TrueRows ==
    LET t == SelectSeq(nextCalls, LAMBDA c : c.st = "true")
    IN  [i \in 1 .. Len(t) |-> t[i].v]

PauseResume == SelectSeq(emitted, LAMBDA e : e \in {"pause", "resume"})

\* The error error(x) stores.
Stored(x) == IF x = NoErr THEN DefaultErr ELSE x

\* C1: the rows made current by the next() calls that resolved true are a
\* prefix of the rows pushed while the stream was not canceling, in push
\* order: nothing is duplicated, reordered or skipped, hand-offs included.
C1_FifoPrefix ==
    /\ IsPrefix(consumed, Accepted)
    /\ consumed = TrueRows

\* C1 witness: a row handed to a pending pull, then a buffered row, both
\* consumed, on a stream with backpressure enabled.
C1_Witness ==
    /\ canPause
    /\ Len(consumed) = 2
    /\ pushLog[consumed[1]] = "handoff"
    /\ pushLog[consumed[2]] = "buffered"

\* C2: `complete` is emitted at most once per cursor, whatever sequence of
\* end(), error() and cancellation follows the first one, and it has been
\* emitted as soon as the producer has signaled end.
C2_CompleteOnce ==
    /\ done => Count(emitted, "complete") >= 1
    /\ Count(emitted, "complete") <= 1

\* C3: a close() made before the producer signaled end emits `cancel` inside
\* the call and leaves the cursor closing, not closed; its promise stays
\* unresolved in every state until the producer calls end() or error(), and
\* that call closes the cursor and resolves the promise.
C3_CloseWaits ==
    /\ [](\A i \in DOMAIN closeCalls :
            closeCalls[i] = "waiting" => closing /\ ~closed /\ ~done)
    /\ [][(CloseStep /\ ~done /\ ~closing) =>
            /\ emitted' = Append(emitted, "cancel")
            /\ closing' /\ ~closed'
            /\ closeCalls'[Len(closeCalls')] = "waiting"]_vars
    /\ [][(\E i \in DOMAIN closeCalls :
             closeCalls[i] = "waiting" /\ closeCalls'[i] = "resolved") =>
            EndOrErrorStep /\ closed']_vars
    /\ [][(closing /\ EndOrErrorStep) =>
            /\ closed' /\ ~closing'
            /\ \A i \in DOMAIN closeCalls' : closeCalls'[i] = "resolved"]_vars

\* C3 witness: close() came first and emitted `cancel`, then end() closed the
\* cursor and resolved the promise.
C3_Witness ==
    /\ closed /\ err = NoErr
    /\ emitted = <<"cancel", "complete">>
    /\ closeCalls = <<"resolved">>
    /\ endLog = <<[op |-> "end", x |-> NoErr]>>

\* C4: a promise returned by close() is never rejected; it is resolved in
\* every state where the cursor is closed, at once when close() is called
\* after end, and by the producer's end() or error() otherwise, whichever
\* route finalization took: once the producer has signaled done, every
\* promise close() returned is resolved in the end.
C4_CloseResolves ==
    /\ [](\A i \in DOMAIN closeCalls : closeCalls[i] \in {"waiting", "resolved"})
    /\ []((closed \/ done) => \A i \in DOMAIN closeCalls : closeCalls[i] = "resolved")
    /\ [][(CloseStep /\ (closed \/ done)) =>
            closeCalls'[Len(closeCalls')] = "resolved"]_vars
    /\ [][(EndOrErrorStep \/ CancelStep) =>
            \A i \in DOMAIN closeCalls' : closeCalls'[i] = "resolved"]_vars
    /\ (done ~> \A i \in DOMAIN closeCalls : closeCalls[i] = "resolved")

\* C5: when a pull is pending and the producer calls error(e), or the
\* Canceler fires with e, that pull is rejected with e, err is e, `complete`
\* has been emitted and the cursor is closed.
C5_PendingPullRejected ==
    [][(waitNext # 0 /\ (ErrorStep \/ CancelStep)) =>
         LET e == IF CancelStep THEN CancelErr
                  ELSE Stored(endLog'[Len(endLog')].x)
         IN  /\ nextCalls'[waitNext] = [st |-> "rejected", v |-> e]
             /\ err' = e
             /\ Count(emitted', "complete") >= 1
             /\ closed' /\ waitNext' = 0]_vars

\* C5 witness: the first pull was rejected with the producer's error.
C5_Witness ==
    /\ Len(nextCalls) >= 1
    /\ nextCalls[1] = [st |-> "rejected", v |-> ErrA]
    /\ err = ErrA /\ closed

\* C6: at most one pull waits for a row, and it is the one in the #waitNext
\* slot; a next() made while it waits is rejected with the 'Existing next()
\* call has not yet resolved' error and changes nothing else.
C6_SinglePull ==
    /\ [](\A i \in DOMAIN nextCalls : nextCalls[i].st = "pending" => waitNext = i)
    /\ [][(NextStep /\ waitNext # 0) =>
            /\ nextCalls' = Append(nextCalls, [st |-> "rejected", v |-> PendingErr])
            /\ UNCHANGED <<fields, readyVal, readyCalls, closeCalls, emitted,
                           consumed>>]_vars

\* C6 witness: the second next() was rejected and the first one was resolved
\* with a row afterwards.
C6_Witness ==
    /\ Len(nextCalls) = 2
    /\ nextCalls[1].st = "true"
    /\ nextCalls[2] = [st |-> "rejected", v |-> PendingErr]

\* C7: while no column info is set, every push throws and changes nothing,
\* in every state of the cursor.
C7_PushNeedsColumns ==
    [][(PushStep /\ columns = NoVal) =>
         /\ pushLog'[Len(pushLog')] = "threw"
         /\ UNCHANGED <<fields, observed>>]_vars

\* C7 witness: a push threw on a canceling cursor that never got columns.
C7_Witness ==
    /\ canceling /\ columns = NoVal
    /\ pushLog # <<>> /\ pushLog[Len(pushLog)] = "threw"
    /\ Len(buf) = 0

\* C8: once canceling, a push with columns set is dropped: it does not
\* throw, changes neither buffer nor flags, resolves no pull, emits nothing,
\* and the row is never buffered, made current or consumed.
C8_DroppedWhenCanceling ==
    /\ [](\A k \in DOMAIN pushLog :
            pushLog[k] = "dropped" =>
               k \notin Range(buf) /\ k \notin Range(consumed) /\ row # k)
    /\ [][(PushStep /\ canceling /\ columns # NoVal) =>
            /\ pushLog'[Len(pushLog')] = "dropped"
            /\ UNCHANGED <<fields, observed>>]_vars

\* C8 witness: a row was buffered, the consumer closed before end, and a
\* later push was dropped.
C8_Witness ==
    /\ closing /\ canceling /\ ~done
    /\ Len(buf) = 1
    /\ pushLog = <<"buffered", "dropped">>

\* C9: the pause and resume events alternate and start with pause.
C9_PauseResumeAlternate ==
    \A i \in DOMAIN PauseResume :
        PauseResume[i] = IF i % 2 = 1 THEN "pause" ELSE "resume"

\* C9 witness: pause, resume and pause again.
C9_Witness == Len(PauseResume) = 3

\* C10: with backpressure enabled a push emits `pause` exactly when it
\* appended the row, the cursor was not paused and the buffer then holds at
\* least pauseCount rows; hence an unpaused cursor holds fewer than
\* pauseCount rows.
C10_PauseAtWatermark ==
    /\ []((canPause /\ ~paused) => Len(buf) < pauseCount)
    /\ [][(PushStep /\ canPause) =>
            /\ (emitted' = Append(emitted, "pause")) <=>
                  /\ buf' = Append(buf, Len(pushLog'))
                  /\ ~paused
                  /\ Len(buf') >= pauseCount
            /\ emitted' # emitted => emitted' = Append(emitted, "pause") /\ paused'
            /\ emitted' = emitted => paused' = paused]_vars

\* C10 witness: the buffer went past pauseCount while paused, with one pause.
C10_Witness ==
    /\ canPause /\ paused
    /\ Len(buf) > pauseCount
    /\ Count(emitted, "pause") = 1

\* C11: with backpressure enabled a next() that dequeues a row emits `resume`
\* and clears paused exactly when the cursor was paused and the buffer then
\* holds at most resumeCount rows; hence a paused cursor holds more than
\* resumeCount rows.
C11_ResumeAtWatermark ==
    /\ []((canPause /\ paused) => Len(buf) > resumeCount)
    /\ [][(NextStep /\ canPause /\ Len(buf) > 0 /\ buf' = Tail(buf)) =>
            /\ (emitted' = Append(emitted, "resume")) <=>
                  (paused /\ Len(buf') <= resumeCount)
            /\ emitted' # emitted => emitted' = Append(emitted, "resume") /\ ~paused'
            /\ emitted' = emitted => paused' = paused]_vars

\* C11 witness: resume was emitted with the buffer exactly at resumeCount.
C11_Witness ==
    /\ canPause /\ ~paused
    /\ resumeCount = 1 /\ Len(buf) = 1
    /\ emitted = <<"pause", "resume">>

\* Scenario A proper: {pauseCount: 5, resumeCount: 3}, columns set and all
\* ScenarioRows rows pushed before the first pull.
ScenarioA == options = ScenarioOptions /\ Len(pushLog) = ScenarioRows

\* C12 as claimed: in Scenario A the 6 pushes fire one `pause` and leave 6 rows
\* buffered; 4 pulls leave 2 rows and one `resume`, fired on the 4th pull (3
\* rows to 2) and not on an earlier one.
C12_ResumeOnFourthPull ==
    ScenarioA =>
        /\ nextCalls = <<>> => emitted = <<"pause">> /\ Len(buf) = ScenarioRows
        /\ Len(nextCalls) < ScenarioPulls => Count(emitted, "resume") = 0
        /\ Len(nextCalls) = ScenarioPulls =>
              Len(buf) = 2 /\ emitted = <<"pause", "resume">>

\* C12 amended: in Scenario A the 6 pushes fire one `pause` and leave 6 rows
\* buffered; 4 pulls leave 2 rows and one `resume`, fired on the 3rd pull, when
\* the buffer falls to resumeCount (4 rows to 3), not on another pull.
C12_ResumeOnThirdPull ==
    ScenarioA =>
        /\ nextCalls = <<>> => emitted = <<"pause">> /\ Len(buf) = ScenarioRows
        /\ \A i \in DOMAIN nextCalls : nextCalls[i] = [st |-> "true", v |-> i]
        /\ Len(buf) = ScenarioRows - Len(nextCalls)
        /\ Len(nextCalls) < 3 => emitted = <<"pause">> /\ paused
        /\ Len(nextCalls) >= 3 => emitted = <<"pause", "resume">> /\ ~paused

\* C12 witness: Scenario A after its four pulls.
C12_Witness ==
    /\ ScenarioA
    /\ Len(nextCalls) = ScenarioPulls
    /\ Len(buf) = 2
    /\ emitted = <<"pause", "resume">>

\* The stream was constructed without options, or with options that give
\* neither pauseCount nor resumeCount.
NoWatermarks ==
    \/ ~options.given
    \/ options.pauseCount = NoVal /\ options.resumeCount = NoVal

\* C13: a stream constructed without options, or with neither pauseCount nor
\* resumeCount, has backpressure disabled: paused stays false, no `pause` or
\* `resume` is ever emitted, and every accepted push (columns set, not
\* canceling) is kept whatever the buffer holds: appended to the buffer, or
\* delivered to the pull that waits on an empty buffer.
C13_NoBackpressure ==
    /\ [](NoWatermarks =>
            /\ ~canPause /\ ~paused
            /\ Count(emitted, "pause") = 0 /\ Count(emitted, "resume") = 0)
    /\ [][(NoWatermarks /\ PushStep /\ columns # NoVal /\ ~canceling) =>
            IF waitNext # 0 /\ buf = <<>>
            THEN /\ nextCalls'[waitNext] = [st |-> "true", v |-> Len(pushLog')]
                 /\ buf' = buf
            ELSE buf' = Append(buf, Len(pushLog'))]_vars

\* C13 witness: empty options, and a buffer grown past every pauseCount the
\* constructor was tried with, without a `pause`.
C13_Witness ==
    /\ options.given /\ NoWatermarks
    /\ Len(buf) > MaxPauseCount + 1
    /\ emitted = <<>>

\* The options name a watermark, and the watermarks they name are valid.
GivesWatermark == options.given /\ ~NoWatermarks

ValidWatermarks ==
    /\ options.pauseCount # NoVal /\ options.pauseCount >= 2
    /\ \/ options.resumeCount = NoVal
       \/ 0 <= options.resumeCount /\ options.resumeCount < options.pauseCount

\* C14: construction with backpressure options succeeds exactly when
\* pauseCount >= 2 and resumeCount is absent (then floor(pauseCount / 2)) or
\* within 0 <= resumeCount < pauseCount; a constructed stream with
\* backpressure has 0 <= resumeCount < pauseCount; a constructor that throws
\* has registered no callback on the Canceler.
C14_CtorValidation ==
    /\ (ctor # "no" /\ GivesWatermark) => (ctor = "ok" <=> ValidWatermarks)
    /\ (ctor = "ok" /\ GivesWatermark) =>
          /\ canPause
          /\ pauseCount = options.pauseCount
          /\ resumeCount = IF options.resumeCount = NoVal
                           THEN CHOOSE f \in 0 .. pauseCount :
                                    2 * f <= pauseCount /\ pauseCount < 2 * (f + 1)
                           ELSE options.resumeCount
    /\ canPause => 0 <= resumeCount /\ resumeCount < pauseCount
    /\ ctor = "threw" => ~onCancel

\* C14 witness: resumeCount equal to pauseCount made the constructor throw,
\* and the Canceler it was given holds no callback.
C14_Witness ==
    /\ ctor = "threw" /\ clr /\ ~onCancel
    /\ options.pauseCount = 3 /\ options.resumeCount = 3

\* No error, no cancellation and no consumer close so far.
Clean == err = NoErr /\ ~canceling /\ ~closing /\ ~closed

EndStep == EndOrErrorStep /\ endLog'[Len(endLog')].op = "end"

\* C15: without error, cancellation or consumer close, end() emits `complete`
\* at once and, with no pull pending, leaves the cursor open; after it each
\* next() returns true with the head of the buffer while rows remain, and the
\* first next() on the empty buffer closes the cursor and can only resolve
\* false.  A pull pending at end() is resolved false by it, cursor closed.
C15_Exhaustion ==
    /\ [][(EndStep /\ Clean) =>
            /\ emitted' = Append(emitted, "complete")
            /\ done' /\ err' = NoErr /\ buf' = buf
            /\ IF waitNext = 0
               THEN ~closed' /\ ~closing' /\ nextCalls' = nextCalls
               ELSE /\ buf = <<>>
                    /\ closed' /\ ~closing'
                    /\ nextCalls' = [nextCalls EXCEPT ![waitNext] =
                                         [st |-> "false", v |-> 0]]]_vars
    /\ [][(NextStep /\ Clean /\ done) =>
            /\ waitNext = 0
            /\ IF buf # <<>>
               THEN /\ nextCalls' = Append(nextCalls, [st |-> "true", v |-> Head(buf)])
                    /\ buf' = Tail(buf)
                    /\ ~closed' /\ ~closing'
               ELSE /\ nextCalls' = Append(nextCalls, [st |-> "ondone", v |-> 0])
                    /\ closed' /\ ~closing' /\ err' = NoErr
                    /\ emitted' = emitted]_vars
    /\ [][\A i \in DOMAIN nextCalls :
             nextCalls[i].st = "ondone" =>
                nextCalls'[i] \in {nextCalls[i], [st |-> "false", v |-> 0]}]_vars

\* C15 witness: one row was pulled, the producer ended, and the next() that met
\* the empty buffer resolved false with the cursor closed and no error.
C15_Witness ==
    /\ closed /\ err = NoErr /\ ~canceling
    /\ endLog = <<[op |-> "end", x |-> NoErr]>>
    /\ nextCalls = <<[st |-> "true", v |-> 1], [st |-> "false", v |-> 0]>>
    /\ emitted = <<"complete">>

\* C16: on a closed cursor close() returns a resolved promise and next()
\* resolves false, and neither changes a field or emits an event; a close()
\* made while an earlier close() is in flight changes nothing either, emits
\* no second `cancel`, and resolves in the same step as the first.
C16_TerminalIdempotent ==
    /\ [][(CloseStep /\ closed) =>
            /\ closeCalls' = Append(closeCalls, "resolved")
            /\ UNCHANGED <<fields, readyVal, readyCalls, nextCalls, emitted,
                           consumed>>]_vars
    /\ [][(NextStep /\ closed) =>
            /\ nextCalls' = Append(nextCalls, [st |-> "false", v |-> 0])
            /\ UNCHANGED <<fields, readyVal, readyCalls, closeCalls, emitted,
                           consumed>>]_vars
    /\ [][(CloseStep /\ closing) =>
            /\ closeCalls' = Append(closeCalls, "waiting")
            /\ UNCHANGED <<fields, readyVal, readyCalls, nextCalls, emitted,
                           consumed>>]_vars
    /\ [][\A i, j \in DOMAIN closeCalls :
             (closeCalls[i] = "waiting" /\ closeCalls[j] = "waiting") =>
                closeCalls'[i] = closeCalls'[j]]_vars
    /\ [](Count(emitted, "cancel") <= 1)

\* C16 witness: a cursor closed without error on which close() was repeated
\* and next() gave false, with one `cancel` emitted in all.
C16_Witness ==
    /\ closed /\ err = NoErr
    /\ closeCalls = <<"resolved", "resolved", "resolved">>
    /\ nextCalls = <<[st |-> "false", v |-> 0]>>
    /\ emitted = <<"cancel", "complete">>

\* C17: a promise of controller.ready() is never rejected, and is pending
\* only before readiness; readiness comes at the first setColumns, end, error,
\* cancellation or close, and resolves the one promise shared by the earlier
\* calls with the terminal error if error() or the Canceler caused it and
\* with null otherwise; a later call returns a promise resolved with the
\* current err.
C17_ReadySemantics ==
    /\ [](\A c \in readyCalls :
            /\ c.st \in {"waiting", "resolved"}
            /\ c.st = "waiting" => c.early /\ ~ready)
    /\ [](Cardinality({c \in readyCalls : c.early}) <= 1)
    /\ [][~ready =>
            (ready' <=> (columns' # columns \/ EndOrErrorStep \/ CancelStep
                            \/ CloseStep))]_vars
    /\ [][(~ready /\ ready') =>
            LET cause == IF ErrorStep \/ CancelStep THEN err' ELSE NoErr
            IN  /\ (ErrorStep \/ CancelStep) => err' # NoErr
                /\ readyCalls' = {[early |-> TRUE, st |-> "resolved", v |-> cause] :
                                     c \in readyCalls}
                /\ readyVal' = IF waitReady THEN cause ELSE readyVal]_vars
    /\ [][(ready /\ readyCalls' # readyCalls) =>
            readyCalls' = readyCalls \cup
                            {[early |-> FALSE, st |-> "resolved", v |-> err]}]_vars
    /\ [][(~ready /\ ~ready' /\ readyCalls' # readyCalls) =>
            readyCalls' = {[early |-> TRUE, st |-> "waiting", v |-> NoErr]}]_vars

\* C17 witness: ready() before and after error(ErrA): both promises carry it.
C17_Witness ==
    readyCalls = {[early |-> TRUE, st |-> "resolved", v |-> ErrA],
                  [early |-> FALSE, st |-> "resolved", v |-> ErrA]}

\* C18: ready never returns to false and is true as soon as columns are set
\* or the stream is done, canceling, closing or closed; the ready awaiter is
\* resolved at most once, by the step that makes the stream ready and with
\* that step's value, and is not created again afterwards.
C18_ReadyOnce ==
    /\ [][ready => ready']_vars
    /\ []((columns # NoVal \/ done \/ canceling \/ closing \/ closed) => ready)
    /\ [](ready => ~waitReady)
    /\ [][readyVal # NoVal => readyVal' = readyVal]_vars
    /\ [][readyVal' # readyVal =>
            /\ ~ready /\ ready' /\ waitReady
            /\ readyVal' = IF ErrorStep \/ CancelStep THEN err' ELSE NoErr]_vars

\* C18 witness: ready was awaited, setColumns resolved it with null, and the
\* later error(ErrA) left both the flag and the resolution as they were.
C18_Witness ==
    /\ ready /\ readyVal = NoErr
    /\ err = ErrA /\ closed
    /\ columns # NoVal /\ columns # EmptyCols

\* C19: once column info is set, by setColumns or by end(), no later step
\* changes it.
C19_ColumnsSetOnce == [][columns # NoVal => columns' = columns]_vars

\* controller.end() has been called.
EndCalled == \E i \in DOMAIN endLog : endLog[i].op = "end"

\* C20: after controller.end() on a stream whose columns no setColumns call
\* has set, the columns are the empty schema and the stream is ready.
C20_EndSetsEmptySchema ==
    (EndCalled /\ columns \notin 1 .. MaxSchema) =>
        columns = EmptyCols /\ ready

\* C21: a cursor built with a Canceler holds one registered callback from
\* construction; the callback is never registered again, is removed by its
\* first firing, by error(), by close() and by the next() that closes on
\* exhaustion; it is not registered while canceling, closing or closed, and
\* so never fires on a closed cursor.
C21_CancelRegistration ==
    /\ [](nCalls = 0 => onCancel = clr)
    /\ [](onCancel => clr /\ ~clrFired /\ ~canceling /\ ~closing /\ ~closed)
    /\ [][onCancel' => onCancel]_vars
    /\ [][(CancelStep \/ ErrorStep \/ CloseStep) => ~onCancel']_vars
    /\ [][(NextStep /\ done /\ buf = <<>>) => ~onCancel' /\ closed']_vars
    /\ [][(clrFired' /\ ~clrFired /\ closed) => UNCHANGED <<fields, observed>>]_vars

\* C21 witness: the cursor closed by exhaustion, and the Canceler fired
\* afterwards without reaching it.
C21_Witness ==
    /\ closed /\ err = NoErr /\ clrFired /\ ~onCancel
    /\ closeCalls = <<>>
    /\ emitted = <<"complete">>

\* C22: the rows the loop was given are the rows of the next() calls that
\* resolved true, in order; the generator calls close() once, when the loop
\* ends by exhaustion, by break, by a throw in its body or by a rejected
\* next(), and not before; the loop statement completes only with the cursor
\* closed; and with a producer that eventually ends, it does complete.
C22_IterationCloses ==
    /\ [](IsPrefix(itRows, TrueRows))
    /\ [](itPc \notin {"awaitNext"} => itRows = TrueRows)
    /\ [](Len(closeCalls) = IF itPc \in {"awaitClose", "done"} THEN 1 ELSE 0)
    /\ [](itPc \in {"finally", "awaitClose", "done"} <=> itExit # "none")
    /\ [](itPc = "done" => closed /\ ~closing)
    /\ <>(itPc = "done")

\* The last controller call was error(x).
LastError(x) == endLog # <<>> /\ endLog[Len(endLog)] = [op |-> "error", x |-> x]

\* C23: right after controller.error(x), `err` is an Error, never null: x
\* itself if x is an Error instance, the default error if x is null or
\* undefined, a new Error with the text of x.message if x is an object with
\* a message, and else a new Error with the text of String(x).
C23_ErrorStored ==
    [][ErrorStep =>
        LET x == endLog'[Len(endLog')].x
        IN  /\ IsError(err') /\ ~IsNullish(err')
            /\ x = ErrA => err' = ErrA
            /\ IsNullish(x) => err' = DefaultErr
            /\ x = MsgObj => err' >= WrapBase /\ Message(err') = StrVal
            /\ x \in {StrVal, NumVal, PlainObj} =>
                  err' >= WrapBase /\ Message(err') = x]_vars

\* C23 witness: error({message: ...}) on a cursor the consumer was closing
\* stored a new Error with the extracted message.
C23_Witness ==
    /\ LastError(MsgObj)
    /\ err = WrapBase + StrVal
    /\ closeCalls = <<"resolved">> /\ closed
    /\ emitted = <<"cancel", "complete">>
\* ------------------------------------------------------------ SqlTxn claims
TxTypeOK ==
    /\ txClosed \in BOOLEAN /\ txStarted \in BOOLEAN
    /\ txEmitted \in 0 .. MaxTxOps
    /\ Len(txOps) <= MaxTxOps
    /\ \A k \in DOMAIN txOps :
         /\ txOps[k].st \in {"pending", "resolved", "rejected"}
         /\ txOps[k].stmt \in 0 .. Len(txStmts)
    /\ \A i \in DOMAIN txStmts : txStmts[i].res \in {"pending", "ok", "fail"}

\* the step is a call of exec, queryRow, query, commit or rollback
TxUseStep ==
    /\ Len(txOps') = Len(txOps) + 1
    /\ txOps'[Len(txOps')].op # "start"

\* the step is a call of start()
TxStartStep ==
    /\ Len(txOps') = Len(txOps) + 1
    /\ txOps'[Len(txOps')].op = "start"

\* the promise of the call made in this step was rejected with msg, and
\* nothing reached the connection
TxRejectedWith(msg) ==
    /\ txOps'[Len(txOps')].st = "rejected"
    /\ txOps'[Len(txOps')].msg = msg
    /\ txStmts' = txStmts

TxStartFailed ==
    \E k \in DOMAIN txOps : txOps[k].op = "start" /\ txOps[k].st = "rejected"

\* a commit() or rollback() that passed the status check has been called
TxFinishCalled ==
    \E k \in DOMAIN txOps :
        txOps[k].op \in {"commit", "rollback"} /\ txOps[k].stmt # 0

TxFinishStmts ==
    {i \in DOMAIN txStmts : txStmts[i].sql \in {"COMMIT", "ROLLBACK"}}

\* C24 as stated: a call of exec, queryRow, query, commit or rollback reaches
\* the connection only while the transaction is started and not closed; made
\* before start() has succeeded it rejects with 'Transaction is not yet
\* started', made after commit() or rollback() it rejects with 'Transaction
\* is already closed', in both cases without a statement; at most one COMMIT
\* or ROLLBACK is ever issued.
C24_NotStartedUntilSuccess ==
    /\ [][TxUseStep =>
            /\ txStmts' # txStmts => txStarted /\ ~txClosed
            /\ ~txStarted => TxRejectedWith("Transaction is not yet started")
            /\ TxFinishCalled => TxRejectedWith("Transaction is already closed")]_vars
    /\ [](Cardinality(TxFinishStmts) <= 1)

\* C24, amended: as above, but a call made after start() has failed rejects
\* with 'Transaction is already closed' whether or not the transaction was
\* ever started; 'Transaction is not yet started' is the answer only while
\* no start() has succeeded or failed.
C24_GuardedForwarding ==
    /\ [][TxUseStep =>
            /\ txStmts' # txStmts => txStarted /\ ~txClosed
            /\ (~txStarted /\ ~TxStartFailed) =>
                  TxRejectedWith("Transaction is not yet started")
            /\ (TxFinishCalled \/ TxStartFailed) =>
                  TxRejectedWith("Transaction is already closed")]_vars
    /\ [](Cardinality(TxFinishStmts) <= 1)

\* C24 witness: on a started transaction commit() is still awaiting its
\* COMMIT when rollback() is called, and rollback() was rejected as already
\* closed: COMMIT is the only such statement on the connection.
C24_Witness ==
    /\ Len(txOps) = 3
    /\ txOps[1].op = "start" /\ txOps[1].st = "resolved"
    /\ txOps[2].op = "commit" /\ txOps[2].st = "pending"
    /\ txOps[3].op = "rollback" /\ txOps[3].st = "rejected"
    /\ txOps[3].msg = "Transaction is already closed"
    /\ Cardinality(TxFinishStmts) = 1

\* options start() has to refuse
TxRefused ==
    \/ txOpts.level \in {"unsupported", "unknown"}
    \/ txOpts.readOnly = "true" /\ ~supportsReadOnly(txConfig)

\* C25: start() with an unsupported or unknown isolation level, or with
\* readOnly = true on a driver without read-only support, rejects before any
\* statement is issued and leaves the transaction closed, so no later call
\* reaches the connection; with a non-default level the SET statement has
\* completed before START is issued, and the transaction is started only
\* once START has completed.
C25_StartRefusal ==
    /\ [][(TxStartStep /\ TxRefused) =>
            /\ txOps'[Len(txOps')].st = "rejected"
            /\ txClosed'
            /\ txStmts' = txStmts]_vars
    /\ [](TxRefused => txStmts = <<>>)
    /\ [](\A i \in DOMAIN txStmts :
            (txStmts[i].sql = "START" /\ txOpts.level \notin {"absent", "default"}) =>
                \E j \in 1 .. (i - 1) :
                    txStmts[j].sql = "SET" /\ txStmts[j].res = "ok")
    /\ [](txStarted =>
            \E i \in DOMAIN txStmts : txStmts[i].sql = "START" /\ txStmts[i].res = "ok")

\* no statement is on its way and no method is still running
TxQuiet ==
    /\ \A i \in DOMAIN txStmts : txStmts[i].res # "pending"
    /\ \A k \in DOMAIN txOps : txOps[k].st # "pending"

\* C26: a transaction that has become closed, by commit(), rollback() or a
\* failed start(), emits `complete` exactly once; for commit and rollback not
\* before the COMMIT/ROLLBACK statement has settled, and then whether it
\* succeeded or failed.
C26_CompleteWhenClosed ==
    /\ [](txEmitted <= 1)
    /\ [](txEmitted = 1 => txClosed)
    /\ []((txClosed /\ TxQuiet) => txEmitted = 1)
    /\ [](\A i \in TxFinishStmts :
            txEmitted = IF txStmts[i].res = "pending" THEN 0 ELSE 1)
\* ------------------------------------------------------ termination claims
ErrorCalled == \E i \in DOMAIN endLog : endLog[i].op = "error"

\* closed for good, with an error, and nothing left waiting: the promises
\* still unsettled are those of pulls whose continuation is in the job queue
FullyTerminated ==
    /\ closed /\ done /\ canceling /\ ~closing
    /\ err # NoErr
    /\ ~waitReady /\ waitNext = 0 /\ ~waitClose
    /\ \A c \in readyCalls : c.st # "pending"
    /\ \A i \in DOMAIN closeCalls : closeCalls[i] = "resolved"
    /\ \A i \in DOMAIN nextCalls :
         nextCalls[i].st # "pending" /\ (nextCalls[i].st = "onclose" => Runnable(i))

\* C28: when controller.error(e) or the cancellation by the Canceler has
\* returned, the cursor is closed, done and canceling, not closing, holds an
\* error and has no ready, pull or close awaiter left; it stays so, and every
\* later next() resolves false, delivering no row even if rows are buffered.
C28_FullyTerminated ==
    /\ [][(ErrorStep \/ CancelStep) => FullyTerminated']_vars
    /\ [](ErrorCalled => FullyTerminated)
    /\ [][FullyTerminated => FullyTerminated']_vars
    /\ [][(NextStep /\ FullyTerminated) =>
            /\ nextCalls'[Len(nextCalls')].st = "false"
            /\ UNCHANGED <<buf, row, consumed>>]_vars

\* C28 witness: error() was called with a row in the buffer, and the next()
\* after it resolved false and left the row there.
C28_Witness ==
    /\ ErrorCalled /\ FullyTerminated
    /\ buf # <<>> /\ consumed = <<>>
    /\ Len(nextCalls) = 1 /\ nextCalls[1].st = "false"

\* the step is a call on the controller: setColumns, a push, end or error
ControllerStep ==
    /\ nCalls' = nCalls + 1
    /\ UNCHANGED <<nextCalls, closeCalls, clrFired>>
    /\ Cardinality(readyCalls') = Cardinality(readyCalls)

\* C29: a controller call on a closed cursor changes neither the buffer nor
\* a flag nor `err`, and no pause, resume, cancel or complete event is
\* emitted once the cursor is closed.
C29_ClosedIsTerminal ==
    /\ [][(closed /\ ControllerStep) =>
            UNCHANGED <<buf, err, ready, done, closing, closed, canceling, paused>>]_vars
    /\ [][closed => emitted' = emitted]_vars

\* C30: close() before the producer has ended leaves a pending pull pending,
\* chained to the close awaiter, and so is a next() issued while the cursor
\* is closing; the close awaiter is resolved only by end() or error(), and
\* such a pull is settled only after that, and only with false; once the
\* producer has signaled done, it is settled in the end.
C30_PullWaitsForClose ==
    /\ [][(CloseStep /\ waitNext # 0 /\ ~done /\ ~closing /\ ~closed) =>
            /\ nextCalls'[waitNext].st = "onclose"
            /\ waitClose' /\ closing']_vars
    /\ [][(NextStep /\ closing) =>
            nextCalls'[Len(nextCalls')].st = "onclose" /\ waitClose']_vars
    /\ [][(waitClose /\ ~waitClose') => EndOrErrorStep]_vars
    /\ [][\A i \in DOMAIN nextCalls :
            nextCalls[i].st = "onclose" =>
                \/ nextCalls'[i].st = "onclose"
                \/ /\ nextCalls'[i].st = "false"
                   /\ ~waitClose /\ closed /\ done
                   /\ \A j \in DOMAIN closeCalls : closeCalls[j] = "resolved"]_vars
    /\ ((done /\ \E i \in DOMAIN nextCalls : nextCalls[i].st = "onclose") ~>
          (\A i \in DOMAIN nextCalls : nextCalls[i].st # "onclose"))

\* -------------------------------------------------- stopping-producer claim
\* C27: when the `cancel` listener calls controller.end() while close() is
\* emitting `cancel`, the promise close() returned is resolved in the end and
\* the cursor becomes closed instead of staying in the closing state, and a
\* pull that was pending at close() is resolved false.
C27_CloseCompletes ==
    /\ (closing ~> closed)
    /\ ((\E i \in DOMAIN closeCalls : closeCalls[i] = "waiting") ~>
          (\A i \in DOMAIN closeCalls : closeCalls[i] = "resolved"))
    /\ ((\E i \in DOMAIN nextCalls : nextCalls[i].st = "onclose") ~>
          (\A i \in DOMAIN nextCalls : nextCalls[i].st \notin {"onclose", "pending"}))

\* ------------------------------------------------------- hand-off and flags
\* C31: a push accepted while a pull is pending and the cursor is not
\* canceling finds the buffer empty, makes the pushed row the current row,
\* resolves that pull with true, leaves the buffer empty and `paused` as it
\* was, emits nothing and clears the waiter; a push accepted with no waiter
\* appends to the buffer.
C31_DirectHandOff ==
    /\ [][(PushStep /\ waitNext # 0 /\ ~canceling /\ columns # NoVal) =>
            /\ buf = <<>> /\ buf' = <<>>
            /\ row' = Len(pushLog')
            /\ nextCalls'[waitNext] = [st |-> "true", v |-> Len(pushLog')]
            /\ paused' = paused /\ emitted' = emitted
            /\ waitNext' = 0]_vars
    /\ [][(PushStep /\ waitNext = 0 /\ ~canceling /\ columns # NoVal) =>
            buf' = Append(buf, Len(pushLog'))]_vars

\* C31 witness: with pauseCount 2 the first push went to the waiting pull
\* and the second was buffered, both without a pause event: the row handed
\* over never counted, and the stream paused at the third push.
C31_Witness ==
    /\ canPause /\ pauseCount = 2
    /\ pushLog = <<"handoff", "buffered", "buffered">>
    /\ nextCalls = <<[st |-> "true", v |-> 1]>>
    /\ row = 1 /\ buf = <<2, 3>>
    /\ emitted = <<"pause">>

\* the Canceler fires, registered callback or not
CancelFire == clrFired' /\ ~clrFired

\* C32: the cursor is closed only if the producer has called end() or
\* error() or the Canceler has fired; a close() before any of these leaves
\* it not closed, and a close() on a cursor whose producer has ended closes
\* it at once, the returned promise being resolved.
C32_FinalizationDeferred ==
    /\ [](closed => (endLog # <<>> \/ clrFired))
    /\ [][(CloseStep /\ endLog = <<>> /\ ~clrFired) =>
            ~closed' /\ closing' /\ closeCalls'[Len(closeCalls')] = "waiting"]_vars
    /\ [][(CloseStep /\ done) =>
            closed' /\ ~closing' /\ closeCalls'[Len(closeCalls')] = "resolved"]_vars

\* C32 witness: the producer ended with rows unread and without a pull
\* waiting, which left the cursor open; the close() after it closed it.
C32_Witness ==
    /\ endLog = <<[op |-> "end", x |-> NoErr]>> /\ ~clrFired
    /\ buf # <<>> /\ nextCalls = <<>>
    /\ closeCalls = <<"resolved">>
    /\ closed /\ ~canceling

\* C33 as stated: canceling becomes true whenever the Canceler fires, the
\* producer calls error() or the consumer calls close(), whatever the state
\* of the cursor, and is never reset.
C33_EveryPathCancels ==
    /\ [][(CancelFire \/ ErrorStep \/ CloseStep) => canceling']_vars
    /\ [][canceling => canceling']_vars

\* C33, amended: canceling becomes true when the Canceler fires while the
\* cancel callback is registered, when the producer calls error(), and when
\* the consumer calls close() on a cursor that is neither done nor closed;
\* a close() on a done or closed cursor leaves it as it was; once true it
\* is never reset.
C33_CancelingMonotonic ==
    /\ [][(CancelStep \/ ErrorStep) => canceling']_vars
    /\ [][(CloseStep /\ ~done /\ ~closed) => canceling']_vars
    /\ [][(CloseStep /\ (done \/ closed)) => canceling' = canceling]_vars
    /\ [][canceling => canceling']_vars

\* C33 witness: close() started the cancellation, and the error() and the
\* firing of the Canceler that followed left canceling set.
C33_Witness ==
    /\ closeCalls = <<"resolved">> /\ emitted[1] = "cancel"
    /\ ready /\ readyVal = NoErr
    /\ ErrorCalled /\ clrFired
    /\ canceling

\* C34: `cancel` is emitted at most once per cursor, whichever of close(),
\* error() and the Canceler come and in whatever order, and it is emitted
\* inside the call that sets canceling.
C34_CancelOnce ==
    /\ [](Count(emitted, "cancel") = IF canceling THEN 1 ELSE 0)
    /\ [][(~canceling /\ canceling') =>
            /\ CloseStep \/ ErrorStep \/ CancelStep
            /\ Count(emitted', "cancel") = 1]_vars

\* C34 witness: close(), error() and the Canceler have all come, close()
\* first, and `cancel` was emitted once, by close().
C34_Witness ==
    /\ closeCalls = <<"resolved">> /\ ErrorCalled /\ clrFired
    /\ ready /\ readyVal = NoErr
    /\ emitted = <<"cancel", "complete">>

\* C35: a closed cursor is done and not closing and has neither a pull nor a
\* close awaiter pending; a closing cursor has a close awaiter registered
\* and its producer has not signaled done.
C35_FlagInvariants ==
    /\ closed => done /\ ~closing
    /\ closed => waitNext = 0 /\ ~waitClose
    /\ closed => \A i \in DOMAIN closeCalls : closeCalls[i] = "resolved"
    /\ closed => \A i \in DOMAIN nextCalls : nextCalls[i].st # "pending"
    /\ closing => waitClose /\ ~done

Settled(c) == c.st \in {"true", "false", "rejected"}

\* C36: a promise returned by next() is settled once, its outcome never
\* changing afterwards, and once the producer has signaled done, by end(),
\* error() or the cancellation, every pull is settled in the end.
C36_PullSettledOnce ==
    /\ [][\A i \in DOMAIN nextCalls :
            Settled(nextCalls[i]) => nextCalls'[i] = nextCalls[i]]_vars
    /\ (done ~> \A i \in DOMAIN nextCalls : Settled(nextCalls[i]))

\* C37: while a next() waiter is registered the buffer is empty: next()
\* registers one only on an empty buffer, and a push made while one is
\* registered does not append to the buffer.
C37_WaiterMeansEmpty ==
    /\ [](waitNext # 0 => buf = <<>>)
    /\ [][(waitNext = 0 /\ waitNext' # 0) => NextStep /\ buf = <<>>]_vars
    /\ [][(PushStep /\ waitNext # 0) => buf' = buf]_vars

\* C37 witness: a buffered row was pulled, the pull after it waits on the
\* empty buffer.
C37_Witness ==
    /\ pushLog = <<"buffered">>
    /\ Len(nextCalls) = 2
    /\ nextCalls[1].st = "true" /\ nextCalls[2].st = "pending"
    /\ waitNext = 2 /\ buf = <<>>

\* C38: once `err` is set no operation changes it: the first failure stays
\* the terminal error.
C38_ErrWriteOnce ==
    [][err # NoErr => err' = err]_vars

\* C39: a push made after the producer has signaled done is not accepted:
\* it leaves the buffer as it was and the row is not handed to a pull, so
\* no later next() delivers it.
C39_NoRowAfterEnd ==
    [][(PushStep /\ done) =>
        /\ buf' = buf
        /\ pushLog'[Len(pushLog')] \notin {"buffered", "handoff"}
        /\ consumed' = consumed]_vars
====
